---- MODULE Spec2Model ----
(***************************************************************************)
(* Verification model of the flash client-server messaging framework.      *)
(*                                                                         *)
(* The module holds several specifications over one set of variables:      *)
(*   SpecDeque   flash::ts_deque used by several threads, one step per     *)
(*               mutex acquisition and per statement group under the lock  *)
(*   SpecUdp     flash::udp::server: the receive handler, the send         *)
(*               pipeline, the time-out sweep and the application calls    *)
(*   SpecPipeline  the same with more sends, for the send pipeline         *)
(*   SpecTcp     flash::tcp::server: the accept handler, the registry of   *)
(*               connections and the application calls                     *)
(*   SpecServers both servers, for what the two have in common             *)
(*   SpecStream  one session of flash::tcp::connection objects, the        *)
(*               server's and the client's, with the bytes between them    *)
(*   SpecLifecycle  Start and Stop of either server, with the thread and   *)
(*               the io_context they drive                                 *)
(*   SpecUpdate  server::Update draining m_qMessagesIn while handlers push *)
(*   SpecDatagramClient  flash::udp::client with the server it talks to    *)
(*   SpecClients the clients of both variants: Connect, Send, Disconnect   *)
(*   SpecFraming the stream session and the datagram client, for the way   *)
(*               a message travels from Send to the queue of the peer      *)
(*   SpecSingle  flash::ts_deque used by one thread, one step per call     *)
(*   SpecMessage flash::message: operator<< and operator>> on one message  *)
(*   SpecThreads the thread of the application and the thread of the       *)
(*               io_context of either server, with what each does to the   *)
(*               registry and which callbacks it makes                     *)
(*   SpecGating  the datagram server and the stream session, for what a    *)
(*               server lets into its inbound queue                        *)
(*   SpecSessions  flash::tcp::server with the handlers of its sessions    *)
(*               on the executor and its inbound queue                     *)
(*   SpecDispatch  both servers, for what Update gives to OnMessage        *)
(*   SpecLocks   flash::ts_deque with every member function called         *)
(* The variable `variant` says which part a behaviour exercises; each      *)
(* specification leaves the variables of the other parts unchanged.        *)
(***************************************************************************)
EXTENDS Integers, Sequences, FiniteSets, TLC

(***************************************************************************)
(* Bounds of the model.                                                    *)
(***************************************************************************)
NumThreads == 2
MaxDqCalls == 4
NumEndpoints == 2
MaxUdpUsers == 2
MaxUdpSends == 1
MaxPipelineSends == 2
MaxUdpIn == 1
ServerTimeoutMs == 1
TicksPerMs == 2
MaxTcpClients == 3
MaxTcpCalls == 2
MaxTcpIn == 1
MaxSessionClients == 2
MaxConSends == 2
MaxConTime == 1
MaxLifeCalls == 4
MaxLifeSessions == 2
MaxUpdMessages == 3
MaxUpdCalls == 2
MaxTclSends == 2
MaxTclDisconnects == 2
MaxSqCalls == 5
MaxMsgOps == 4
MaxThrCalls == 3
MaxThrHandlers == 2
ClientTimeoutMs == 0
\* what a run of the datagram client may contain: calls of Send by the client
\* and by the server, a Send of a message that is too large on each side, ticks
\* of the clock, and calls of Disconnect
DgcBudgets ==
    {[sends |-> 2, serverSends |-> 1, oversize |-> TRUE, ticks |-> 0, disconnects |-> 0],
     [sends |-> 1, serverSends |-> 0, oversize |-> FALSE, ticks |-> 2, disconnects |-> 2]}

VARIABLES
    variant,          \* the part of the framework a behaviour exercises
    hostEndian,       \* byte order of the host: "little" or "big"
    \* ---- tcp::server ----
    tcp,              \* the server object, with the record of the callbacks it made
    \* ---- tcp::connection ----
    con,              \* the two connection objects of one session, and what they did
    \* ---- udp::server ----
    udp,              \* the server object, with the record of the callbacks it made
    udpPosted,        \* handlers posted to m_asioContext by Send, in posting order
    udpNow,           \* std::chrono::steady_clock, in ticks
    \* ---- Start and Stop of the servers ----
    life,             \* thread, io_context and sessions of a server, and the calls made
    \* ---- server::Update ----
    upd,              \* m_qMessagesIn, the call of Update in progress, and the record
    \* ---- udp::client ----
    dgc,              \* the client, the network, its server, and what happened
    \* ---- tcp::client ----
    tcl,              \* the client, and what happened
    \* ---- ts_deque used by one thread ----
    sq,               \* the deque, and the last call with what it returned
    \* ---- message ----
    mg,               \* the message, and the pushes and pops made
    \* ---- the threads of a server ----
    thr,              \* what each thread of a server is doing, and the callbacks made
    \* ---- ts_deque ----
    m_deque,          \* std::deque<T> m_deque
    m_mutexDeque,     \* owner of m_mutexDeque, NoThread when free
    m_mutexBlocking,  \* owner of m_mutexBlocking, NoThread when free
    m_cvBlocking,     \* threads blocked inside m_cvBlocking.wait
    dqPc,             \* per thread: position inside the running member function
    dqOp,             \* per thread: the member function being executed
    dqVal,            \* per thread: the argument (push) or the local `value` (pop)
    dqReturned,       \* values returned by completed pops, in completion order
    dqCalls,          \* number of calls started, per member function
    dqDone,           \* number of calls completed, per member function
    dqPopOnEmpty      \* a pop ran on an empty deque (undefined behaviour)

dqVars == <<m_deque, m_mutexDeque, m_mutexBlocking, m_cvBlocking, dqPc, dqOp,
            dqVal, dqReturned, dqCalls, dqDone, dqPopOnEmpty>>

udpVars == <<udp, udpPosted, udpNow>>

tcpVars == <<tcp>>

conVars == <<con>>

lifeVars == <<life>>

updVars == <<upd>>

dgcVars == <<dgc>>

tclVars == <<tcl>>

sqVars == <<sq>>

msgVars == <<mg>>

thrVars == <<thr>>

vars ==
    <<variant, hostEndian, dqVars, udpVars, tcpVars, conVars, lifeVars, updVars, dgcVars, tclVars,
      sqVars,
      msgVars,
      thrVars>>

(***************************************************************************)
(* Integers of fixed width, byte order, messages                           *)
(*                                                                         *)
(* A uint64_t is held as its 8 base-256 digits, most significant first, a  *)
(* uint32_t as its 4 digits.  Memory, streams and datagrams are sequences  *)
(* of bytes.                                                               *)
(***************************************************************************)
Reverse(q) == [i \in 1..Len(q) |-> q[Len(q) + 1 - i]]
RemoveKey(f, k) == [x \in DOMAIN f \ {k} |-> f[x]]
Orders(S) == {q \in [1..Cardinality(S) -> S] : \A i, j \in 1..Cardinality(S) : i # j => q[i] # q[j]}

\* uint32_t(n) and uint64_t(n) for a number n below 65536
U32(n) == <<0, 0, n \div 256, n % 256>>
ToU64(n) == <<0, 0, 0, 0>> \o U32(n)

\* the bytes an unsigned integer occupies in memory, and the integer bytes in memory hold
Mem(v, endian) == IF endian = "big" THEN v ELSE Reverse(v)
Val(b, endian) == IF endian = "big" THEN b ELSE Reverse(b)

\* boost::endian::native_to_big / big_to_native: on a little-endian host the bytes
\* of the value are reversed, on a big-endian host the value is returned as it is
NativeToBig(v, endian) == IF endian = "big" THEN v ELSE Reverse(v)
BigToNative(v, endian) == IF endian = "big" THEN v ELSE Reverse(v)

\* bit operations on uint64_t: bit 0 is the least significant
BitOf(v, i) == (v[8 - (i \div 8)] \div (2 ^ (i % 8))) % 2
ToBits(v) == [i \in 0..63 |-> BitOf(v, i)]
FromBits(b) == [k \in 1..8 |->
    LET o == (8 - k) * 8
    IN b[o] + 2 * b[o+1] + 4 * b[o+2] + 8 * b[o+3] + 16 * b[o+4] + 32 * b[o+5]
            + 64 * b[o+6] + 128 * b[o+7]]
Xor64(a, b) == [i \in 0..63 |-> (a[i] + b[i]) % 2]
Shr64(a, n) == [i \in 0..63 |-> IF i + n <= 63 THEN a[i + n] ELSE 0]
Low32(a) == [i \in 0..63 |-> IF i <= 31 THEN a[i] ELSE 0]

MixXorIn == <<0, 0, 0, 0, 160, 177, 194, 211>>      \* 0xA0B1C2D3
MixXorOut == <<0, 0, 0, 0, 18, 52, 86, 120>>        \* 0x12345678
LARGE_PRIME == <<88, 81, 244, 45, 76, 149, 127, 45>> \* 6364136223846793005
\* OFFSET = 000'001'000, an octal literal
OFFSET == 512

\* uint32_t MixBits(uint64_t x), the result widened to uint64_t
MixBits(v) ==
    LET x == Xor64(ToBits(v), ToBits(MixXorIn))
        xor_shifted == Low32(Shr64(Xor64(Shr64(x, 18), x), 27))
        rot == x[59] + 2 * x[60] + 4 * x[61] + 8 * x[62] + 16 * x[63]
        res == [i \in 0..63 |-> IF i <= 31 THEN xor_shifted[(i + rot) % 32] ELSE 0]
    IN FromBits(Xor64(res, ToBits(MixXorOut)))

\* a * LARGE_PRIME + OFFSET modulo 2^64, by columns of base-256 digits
RECURSIVE CarryDigits(_, _, _)
CarryDigits(cols, k, carry) ==
    IF k > 8 THEN <<>>
    ELSE CarryDigits(cols, k + 1, (cols[k] + carry) \div 256) \o <<(cols[k] + carry) % 256>>
MulPrimeAddOffset(a) ==
    LET digit(v, i) == v[8 - i]
        terms(k) == [i \in 0..k |-> digit(a, i) * digit(LARGE_PRIME, k - i)]
        col(k) == LET sum[i \in 0..k] == IF i = 0 THEN terms(k)[0] ELSE terms(k)[i] + sum[i - 1]
                  IN sum[k]
    IN CarryDigits([k \in 1..8 |-> col(k - 1) + (IF k = 1 THEN OFFSET ELSE 0)], 1, 0)

\* uint64_t Scramble(uint64_t input)
Scramble(input) == MulPrimeAddOffset(MixBits(MulPrimeAddOffset(MixBits(input))))

\* message<T>: header { m_type, m_size } and body
HeaderSize == 8
Message(type, body) == [m_header |-> [m_type |-> U32(type), m_size |-> U32(Len(body))],
                        m_body |-> body]
MsgSize(msg) == HeaderSize + Len(msg.m_body)
\* the state std::move leaves a message in: the header is copied, the body is taken
MovedFrom(msg) == [msg EXCEPT !.m_body = <<>>]
\* the 8 bytes of a header<T> in memory
HeaderBytes(h, endian) == Mem(h.m_type, endian) \o Mem(h.m_size, endian)
HeaderOf(b, endian) == [m_type |-> Val(SubSeq(b, 1, 4), endian),
                        m_size |-> Val(SubSeq(b, 5, 8), endian)]
\* the messages the application sends
Msgs == {Message(1, <<>>), Message(2, <<7>>)}
UdpMsg == Message(2, <<7>>)

(***************************************************************************)
(* ts_deque                                                                *)
(***************************************************************************)
DqThreads == 1..NumThreads
NoThread == 0
Garbage == 0
DqOps == {"push_back", "push_front", "pop_front", "pop_back", "wait"}
DqPushOps == {"push_back", "push_front"}
DqPopOps == {"pop_front", "pop_back"}

\* a mutex can be acquired only while no thread owns it
MutexFree_NoExclusion(m) == TRUE
MutexFree(m) == m = NoThread

\* std::deque::emplace_back / emplace_front
EmplaceBack(d, v) == Append(d, v)
EmplaceFront(d, v) == <<v>> \o d

\* std::deque::front / back of a non-empty deque
Front(d) == d[1]
Back(d) == d[Len(d)]

\* std::deque::pop_front / pop_back of a non-empty deque
PopFront(d) == SubSeq(d, 2, Len(d))
PopBack(d) == SubSeq(d, 1, Len(d) - 1)

\* the set of threads notify_one may wake: one of the waiters, if there is any
NotifyOne(waiters) == waiters

\* a step of a thread using the deque leaves the other parts alone
DqStep == variant \in {"deque", "deque-locks"} /\ UNCHANGED <<variant, hostEndian, udpVars, tcpVars, conVars, lifeVars, updVars, dgcVars, tclVars, sqVars, msgVars, thrVars>>

DqInit ==
    /\ m_deque = <<>>
    /\ m_mutexDeque = NoThread
    /\ m_mutexBlocking = NoThread
    /\ m_cvBlocking = {}
    /\ dqPc = [t \in DqThreads |-> "idle"]
    /\ dqOp = [t \in DqThreads |-> "none"]
    /\ dqVal = [t \in DqThreads |-> Garbage]
    /\ dqReturned = <<>>
    /\ dqCalls = [o \in DqOps |-> 0]
    /\ dqDone = [o \in DqOps |-> 0]
    /\ dqPopOnEmpty = FALSE

DqPushCalls == dqCalls["push_back"] + dqCalls["push_front"]
DqPopCalls == dqCalls["pop_front"] + dqCalls["pop_back"]
DqCalls == DqPushCalls + DqPopCalls + dqCalls["wait"]
DqPushDone == dqDone["push_back"] + dqDone["push_front"]
DqPopDone == dqDone["pop_front"] + dqDone["pop_back"]

\* a thread calls push_back(v) or push_front(v); the pushed values are 1, 2, ...
DqCallPush(t, o) ==
    /\ DqStep
    /\ dqPc[t] = "idle"
    /\ o \in DqPushOps
    /\ DqCalls < MaxDqCalls
    /\ dqPc' = [dqPc EXCEPT ![t] = "lock"]
    /\ dqOp' = [dqOp EXCEPT ![t] = o]
    /\ dqVal' = [dqVal EXCEPT ![t] = DqPushCalls + 1]
    /\ dqCalls' = [dqCalls EXCEPT ![o] = @ + 1]
    /\ UNCHANGED <<m_deque, m_mutexDeque, m_mutexBlocking, m_cvBlocking,
                   dqReturned, dqDone, dqPopOnEmpty>>

\* a thread calls pop_front() or pop_back()
DqCallPop(t, o) ==
    /\ DqStep
    /\ dqPc[t] = "idle"
    /\ o \in DqPopOps
    /\ DqCalls < MaxDqCalls
    /\ dqPc' = [dqPc EXCEPT ![t] = "lock"]
    /\ dqOp' = [dqOp EXCEPT ![t] = o]
    /\ dqVal' = [dqVal EXCEPT ![t] = Garbage]
    /\ dqCalls' = [dqCalls EXCEPT ![o] = @ + 1]
    /\ UNCHANGED <<m_deque, m_mutexDeque, m_mutexBlocking, m_cvBlocking,
                   dqReturned, dqDone, dqPopOnEmpty>>

\* a thread calls wait()
DqCallWait(t) ==
    /\ DqStep
    /\ dqPc[t] = "idle"
    /\ DqCalls < MaxDqCalls
    /\ dqPc' = [dqPc EXCEPT ![t] = "check"]
    /\ dqOp' = [dqOp EXCEPT ![t] = "wait"]
    /\ dqCalls' = [dqCalls EXCEPT !["wait"] = @ + 1]
    /\ UNCHANGED <<m_deque, m_mutexDeque, m_mutexBlocking, m_cvBlocking,
                   dqVal, dqReturned, dqDone, dqPopOnEmpty>>

\* push_back / push_front: std::scoped_lock lock { m_mutexDeque };
\* m_deque.emplace_back(std::move(value)) / m_deque.emplace_front(std::move(value))
DqPushLock(t) ==
    /\ DqStep
    /\ dqPc[t] = "lock"
    /\ dqOp[t] \in DqPushOps
    /\ MutexFree(m_mutexDeque)
    /\ m_mutexDeque' = t
    /\ m_deque' = IF dqOp[t] = "push_back" THEN EmplaceBack(m_deque, dqVal[t])
                                           ELSE EmplaceFront(m_deque, dqVal[t])
    /\ dqPc' = [dqPc EXCEPT ![t] = "lockBlocking"]
    /\ UNCHANGED <<m_mutexBlocking, m_cvBlocking, dqOp, dqVal,
                   dqReturned, dqCalls, dqDone, dqPopOnEmpty>>

\* std::unique_lock<std::mutex> ul { m_mutexBlocking } of push_back, push_front and wait
DqLockBlocking(t) ==
    /\ DqStep
    /\ dqPc[t] = "lockBlocking"
    /\ MutexFree(m_mutexBlocking)
    /\ m_mutexBlocking' = t
    /\ dqPc' = [dqPc EXCEPT ![t] = IF dqOp[t] = "wait" THEN "cvWait" ELSE "notify"]
    /\ UNCHANGED <<m_deque, m_mutexDeque, m_cvBlocking, dqOp, dqVal,
                   dqReturned, dqCalls, dqDone, dqPopOnEmpty>>

\* m_cvBlocking.notify_one() wakes one thread blocked in wait, if there is one (the
\* woken thread still has to reacquire m_mutexBlocking); then ul and lock are
\* released and push_back / push_front returns
DqNotify(t) ==
    /\ DqStep
    /\ dqPc[t] = "notify"
    /\ IF NotifyOne(m_cvBlocking) = {}
         THEN /\ dqPc' = [dqPc EXCEPT ![t] = "idle"]
              /\ UNCHANGED m_cvBlocking
         ELSE \E w \in NotifyOne(m_cvBlocking) :
              /\ m_cvBlocking' = m_cvBlocking \ {w}
              /\ dqPc' = [dqPc EXCEPT ![t] = "idle", ![w] = "reacquire"]
    /\ m_mutexBlocking' = NoThread
    /\ m_mutexDeque' = NoThread
    /\ dqDone' = [dqDone EXCEPT ![dqOp[t]] = @ + 1]
    /\ dqOp' = [dqOp EXCEPT ![t] = "none"]
    /\ UNCHANGED <<m_deque, dqVal, dqReturned, dqCalls, dqPopOnEmpty>>

\* pop_front / pop_back: std::scoped_lock lock { m_mutexDeque };
\* T value = std::move(m_deque.front()) / std::move(m_deque.back());
\* on an empty deque the behaviour is undefined: the value is garbage
DqPopLock(t) ==
    /\ DqStep
    /\ dqPc[t] = "lock"
    /\ dqOp[t] \in DqPopOps
    /\ MutexFree(m_mutexDeque)
    /\ m_mutexDeque' = t
    /\ IF m_deque = <<>>
         THEN /\ dqVal' = [dqVal EXCEPT ![t] = Garbage]
              /\ dqPopOnEmpty' = TRUE
         ELSE /\ dqVal' = [dqVal EXCEPT ![t] =
                     IF dqOp[t] = "pop_front" THEN Front(m_deque) ELSE Back(m_deque)]
              /\ UNCHANGED dqPopOnEmpty
    /\ dqPc' = [dqPc EXCEPT ![t] = "pop"]
    /\ UNCHANGED <<m_deque, m_mutexBlocking, m_cvBlocking, dqOp,
                   dqReturned, dqCalls, dqDone>>

\* m_deque.pop_front() / m_deque.pop_back(); return value: lock is released
DqPop(t) ==
    /\ DqStep
    /\ dqPc[t] = "pop"
    /\ IF m_deque = <<>>
         THEN /\ dqPopOnEmpty' = TRUE
              /\ UNCHANGED m_deque
         ELSE /\ m_deque' = IF dqOp[t] = "pop_front" THEN PopFront(m_deque)
                                                     ELSE PopBack(m_deque)
              /\ UNCHANGED dqPopOnEmpty
    /\ m_mutexDeque' = NoThread
    /\ dqReturned' = Append(dqReturned, dqVal[t])
    /\ dqDone' = [dqDone EXCEPT ![dqOp[t]] = @ + 1]
    /\ dqPc' = [dqPc EXCEPT ![t] = "idle"]
    /\ dqOp' = [dqOp EXCEPT ![t] = "none"]
    /\ UNCHANGED <<m_mutexBlocking, m_cvBlocking, dqVal, dqCalls>>

\* while (empty()): empty() takes m_mutexDeque, reads m_deque.empty() and releases
DqWaitCheck(t) ==
    /\ DqStep
    /\ dqPc[t] = "check"
    /\ MutexFree(m_mutexDeque)
    /\ IF m_deque = <<>>
         THEN /\ dqPc' = [dqPc EXCEPT ![t] = "lockBlocking"]
              /\ UNCHANGED <<dqOp, dqDone>>
         ELSE /\ dqPc' = [dqPc EXCEPT ![t] = "idle"]
              /\ dqOp' = [dqOp EXCEPT ![t] = "none"]
              /\ dqDone' = [dqDone EXCEPT !["wait"] = @ + 1]
    /\ UNCHANGED <<m_deque, m_mutexDeque, m_mutexBlocking, m_cvBlocking, dqVal,
                   dqReturned, dqCalls, dqPopOnEmpty>>

\* m_cvBlocking.wait(ul): atomically releases m_mutexBlocking and blocks
DqCvWait(t) ==
    /\ DqStep
    /\ dqPc[t] = "cvWait"
    /\ m_mutexBlocking' = NoThread
    /\ m_cvBlocking' = m_cvBlocking \cup {t}
    /\ dqPc' = [dqPc EXCEPT ![t] = "blocked"]
    /\ UNCHANGED <<m_deque, m_mutexDeque, dqOp, dqVal, dqReturned, dqCalls,
                   dqDone, dqPopOnEmpty>>

\* a spurious wake-up of m_cvBlocking.wait(ul)
DqSpuriousWake(t) ==
    /\ DqStep
    /\ dqPc[t] = "blocked"
    /\ t \in m_cvBlocking
    /\ m_cvBlocking' = m_cvBlocking \ {t}
    /\ dqPc' = [dqPc EXCEPT ![t] = "reacquire"]
    /\ UNCHANGED <<m_deque, m_mutexDeque, m_mutexBlocking, dqOp, dqVal,
                   dqReturned, dqCalls, dqDone, dqPopOnEmpty>>

\* m_cvBlocking.wait(ul) returns: it reacquires m_mutexBlocking; then ul goes out
\* of scope at the end of the loop body and the loop tests empty() again
DqWaitWake_KeepsLock(t) ==
    /\ DqStep
    /\ dqPc[t] = "reacquire"
    /\ MutexFree(m_mutexBlocking)
    /\ m_mutexBlocking' = t
    /\ dqPc' = [dqPc EXCEPT ![t] = "check"]
    /\ UNCHANGED <<m_deque, m_mutexDeque, m_cvBlocking, dqOp,
                   dqVal, dqReturned, dqCalls, dqDone, dqPopOnEmpty>>

DqWaitWake(t) ==
    /\ DqStep
    /\ dqPc[t] = "reacquire"
    /\ MutexFree(m_mutexBlocking)
    /\ dqPc' = [dqPc EXCEPT ![t] = "check"]
    /\ UNCHANGED <<m_deque, m_mutexDeque, m_mutexBlocking, m_cvBlocking, dqOp,
                   dqVal, dqReturned, dqCalls, dqDone, dqPopOnEmpty>>

\* a thread calls empty(), size() or clear()
DqAskOps == {"empty", "size", "clear"}
DqCallAsk(t, o) ==
    /\ DqStep
    /\ variant = "deque-locks"
    /\ dqPc[t] = "idle"
    /\ o \in DqAskOps
    /\ dqPc' = [dqPc EXCEPT ![t] = "lock"]
    /\ dqOp' = [dqOp EXCEPT ![t] = o]
    /\ UNCHANGED <<m_deque, m_mutexDeque, m_mutexBlocking, m_cvBlocking, dqVal,
                   dqReturned, dqCalls, dqDone, dqPopOnEmpty>>

\* empty / size / clear: std::scoped_lock lock { m_mutexDeque }; the deque is read
\* or cleared, and the lock is released on return
DqAsk(t) ==
    /\ DqStep
    /\ dqPc[t] = "lock"
    /\ dqOp[t] \in DqAskOps
    /\ MutexFree(m_mutexDeque)
    /\ m_deque' = IF dqOp[t] = "clear" THEN <<>> ELSE m_deque
    /\ dqVal' = [dqVal EXCEPT ![t] = IF dqOp[t] = "size" THEN Len(m_deque)
                                     ELSE IF dqOp[t] = "empty" /\ m_deque = <<>> THEN 1
                                     ELSE 0]
    /\ dqPc' = [dqPc EXCEPT ![t] = "idle"]
    /\ dqOp' = [dqOp EXCEPT ![t] = "none"]
    /\ UNCHANGED <<m_mutexDeque, m_mutexBlocking, m_cvBlocking,
                   dqReturned, dqCalls, dqDone, dqPopOnEmpty>>

DqNext ==
    \/ \E t \in DqThreads, o \in DqPushOps : DqCallPush(t, o)
    \/ \E t \in DqThreads, o \in DqPopOps : DqCallPop(t, o)
    \/ \E t \in DqThreads : DqCallWait(t)
    \/ \E t \in DqThreads : DqPushLock(t)
    \/ \E t \in DqThreads : DqLockBlocking(t)
    \/ \E t \in DqThreads : DqNotify(t)
    \/ \E t \in DqThreads : DqPopLock(t)
    \/ \E t \in DqThreads : DqPop(t)
    \/ \E t \in DqThreads : DqWaitCheck(t)
    \/ \E t \in DqThreads : DqCvWait(t)
    \/ \E t \in DqThreads : DqSpuriousWake(t)
    \/ \E t \in DqThreads : DqWaitWake(t)

\* the threads call every member function of the deque
LocksNext ==
    \/ DqNext
    \/ \E t \in DqThreads, o \in DqAskOps : DqCallAsk(t, o)
    \/ \E t \in DqThreads : DqAsk(t)

(***************************************************************************)
(* udp::server                                                             *)
(***************************************************************************)
FirstClientId == 100000
INVALID_USER_ID == -1
MAX_MESSAGE_SIZE_IN_BYTES == 64000
CONNECTION_REQUEST_MAGIC_NUMBER == <<0, 0, 0, 0, 38, 229, 85, 0>>   \* 0x26E55500

Endpoints == 1..NumEndpoints
UdpIds == FirstClientId..(FirstClientId + MaxUdpUsers - 1)
MaxTime == (ServerTimeoutMs + 1) * TicksPerMs

\* steady_clock::time_point::time_since_epoch().count() as uint64_t
ClockCount(now) == ToU64(now)

\* Scramble, computed once for the values the server and its peers apply it to
RECURSIVE Tabulate(_)
Tabulate(S) ==
    IF S = {} THEN <<>>
    ELSE LET v == CHOOSE x \in S : TRUE IN (v :> Scramble(v)) @@ Tabulate(S \ {v})
ClockCounts == {ClockCount(t) : t \in 0..MaxTime}
ScrambleTable == Tabulate(ClockCounts \cup {Scramble(c) : c \in ClockCounts})
ScrambleOf(v) == IF v \in DOMAIN ScrambleTable THEN ScrambleTable[v] ELSE Scramble(v)

\* duration_cast<milliseconds>(now - last).count(): truncates to whole milliseconds
ElapsedMs_RoundUp(now, last) == (now - last + TicksPerMs - 1) \div TicksPerMs
ElapsedMs(now, last) == (now - last) \div TicksPerMs

\* the server object after construction
NewServer ==
    [m_uidCounter |-> FirstClientId,
     m_serverTimeout |-> ServerTimeoutMs,
     m_endpointToUserId |-> <<>>,
     m_userIdToUser |-> <<>>,
     m_qMessagesIn |-> <<>>,
     m_qMessagesOut |-> <<>>,
     running |-> FALSE,         \* m_threadContext runs m_asioContext
     sending |-> FALSE,         \* an async_send_to of SendMessages is in flight
     \* what the server did, for the claims
     trace |-> <<>>,            \* the steps of the handler that ran last
     assigned |-> <<>>,         \* the ids given out, in order
     nValidate |-> [i \in UdpIds |-> 0],    \* calls of OnClientValidate
     nDisconnect |-> [i \in UdpIds |-> 0],  \* calls of OnClientDisconnect
     challenge |-> [e \in Endpoints |-> <<>>],  \* last validation datagram sent
     sent |-> <<>>,             \* message datagrams handed to async_send_to
     nSendCalls |-> 0]          \* calls of MessageClient and MessageAllClients

UdpInit ==
    /\ udp = NewServer
    /\ udpPosted = <<>>
    /\ udpNow = 0

\* a step of the datagram server leaves the other parts alone
UdpStep ==
    variant \in {"datagram", "broadcast", "pipeline"} /\ UNCHANGED <<variant, hostEndian, dqVars, tcpVars, conVars, lifeVars, updVars, dgcVars, tclVars, sqVars, msgVars, thrVars>>

Log(s, event) == [s EXCEPT !.trace = Append(@, event)]

\* server::Start: WaitForMessages(), then the thread that runs the context
UdpStart ==
    /\ UdpStep
    /\ ~udp.running
    /\ udp' = [udp EXCEPT !.running = TRUE, !.trace = <<>>]
    /\ UNCHANGED <<udpPosted, udpNow>>

\* m_lastMessageTime of every user of the registry
LastMessageTimes(s) ==
    [id \in DOMAIN s.m_userIdToUser |-> s.m_userIdToUser[id].m_lastMessageTime]

\* the users CleanupUsers finds timed out
TimedOut(s, now) ==
    {id \in DOMAIN s.m_userIdToUser :
        ElapsedMs(now, s.m_userIdToUser[id].m_lastMessageTime) > s.m_serverTimeout}

\* server::CleanupUsers, second loop: erase the users of disconnectedUsers
RECURSIVE CleanupErase_KeepsUser(_, _, _)
CleanupErase_KeepsUser(s, disconnectedUsers, i) ==
    IF i > Len(disconnectedUsers) THEN s
    ELSE LET userId == disconnectedUsers[i]
             erased == [s EXCEPT
                 !.m_endpointToUserId = RemoveKey(@, s.m_userIdToUser[userId].m_endpoint)]
         IN CleanupErase_KeepsUser(Log(erased, <<"erase", userId>>), disconnectedUsers, i + 1)

RECURSIVE CleanupErase(_, _, _)
CleanupErase(s, disconnectedUsers, i) ==
    IF i > Len(disconnectedUsers) THEN s
    ELSE LET userId == disconnectedUsers[i]
             erased == [s EXCEPT
                 !.m_endpointToUserId = RemoveKey(@, s.m_userIdToUser[userId].m_endpoint),
                 !.m_userIdToUser = RemoveKey(@, userId)]
         IN CleanupErase(Log(erased, <<"erase", userId>>), disconnectedUsers, i + 1)

\* server::CleanupUsers, third loop: OnClientDisconnect for the users of disconnectedUsers
RECURSIVE CleanupNotify(_, _, _)
CleanupNotify(s, disconnectedUsers, i) ==
    IF i > Len(disconnectedUsers) THEN s
    ELSE LET userId == disconnectedUsers[i]
             called == [s EXCEPT !.nDisconnect[userId] = @ + 1]
         IN CleanupNotify(Log(called, <<"OnClientDisconnect", userId>>), disconnectedUsers, i + 1)

\* server::CleanupUsers; disconnectedUsers lists TimedOut(s, now) in the order the
\* iteration over m_userIdToUser meets them
CleanupUsers(s, now, disconnectedUsers) ==
    LET entered == Log(s, <<"CleanupUsers", now, LastMessageTimes(s)>>)
    IN CleanupNotify(CleanupErase(entered, disconnectedUsers, 1), disconnectedUsers, 1)

\* server::SendValidation
SendValidation(s, userId) ==
    LET m_tempHandshakeOut == NativeToBig(s.m_userIdToUser[userId].m_handshake, hostEndian)
    IN [s EXCEPT !.challenge[s.m_userIdToUser[userId].m_endpoint] =
                     Mem(m_tempHandshakeOut, hostEndian)]

\* server::HandleNewConnection when OnClientConnect returns false
DenyConnection_ConsumesId(s) == [Log(s, <<"OnClientConnect", FALSE>>) EXCEPT !.m_uidCounter = @ + 1]
DenyConnection(s) == Log(s, <<"OnClientConnect", FALSE>>)

\* server::HandleNewConnection; accept is the result of OnClientConnect
HandleNewConnection_AnyEightBytes(s, m_remoteEndpoint, m_tempBufferIn, now, accept) ==
    IF Len(m_tempBufferIn) # 8 \/ ~accept THEN s
    ELSE LET newId == s.m_uidCounter
             user == [m_endpoint |-> m_remoteEndpoint, m_lastMessageTime |-> now,
                      m_validated |-> FALSE, m_handshake |-> ScrambleOf(ClockCount(now)),
                      m_handshakeCheck |-> ScrambleOf(ScrambleOf(ClockCount(now)))]
         IN [s EXCEPT !.m_uidCounter = @ + 1,
                      !.assigned = Append(@, newId),
                      !.m_endpointToUserId = (m_remoteEndpoint :> newId) @@ @,
                      !.m_userIdToUser = (newId :> user) @@ @]
HandleNewConnection(s, m_remoteEndpoint, m_tempBufferIn, now, accept) ==
    IF Len(m_tempBufferIn) # 8 THEN s
    ELSE IF BigToNative(Val(m_tempBufferIn, hostEndian), hostEndian)
                # CONNECTION_REQUEST_MAGIC_NUMBER THEN s
    ELSE IF ~accept THEN DenyConnection(s)
    ELSE LET newId == s.m_uidCounter
             handshake == ScrambleOf(ClockCount(now))
             handshakeCheck == ScrambleOf(handshake)
             user == [m_endpoint |-> m_remoteEndpoint, m_lastMessageTime |-> now,
                      m_validated |-> FALSE, m_handshake |-> handshake,
                      m_handshakeCheck |-> handshakeCheck]
             added == [Log(s, <<"OnClientConnect", TRUE>>) EXCEPT
                 !.m_uidCounter = @ + 1,
                 !.assigned = Append(@, newId),
                 !.m_endpointToUserId = (m_remoteEndpoint :> newId) @@ @,
                 !.m_userIdToUser = (newId :> user) @@ @]
         IN SendValidation(added, newId)

\* server::HandleValidation
HandleValidation_TellsApplication(s, m_remoteEndpoint, userId, m_tempBufferIn, now) ==
    LET kill == [s EXCEPT !.m_endpointToUserId = RemoveKey(@, m_remoteEndpoint),
                          !.m_userIdToUser = RemoveKey(@, userId),
                          !.nDisconnect[userId] = @ + 1]
    IN IF Len(m_tempBufferIn) # 8 THEN kill
       ELSE IF BigToNative(Val(m_tempBufferIn, hostEndian), hostEndian)
                   # s.m_userIdToUser[userId].m_handshakeCheck THEN kill
       ELSE [s EXCEPT !.m_userIdToUser[userId].m_validated = TRUE,
                      !.m_userIdToUser[userId].m_lastMessageTime = now,
                      !.nValidate[userId] = @ + 1]

HandleValidation(s, m_remoteEndpoint, userId, m_tempBufferIn, now) ==
    LET kill == [s EXCEPT !.m_endpointToUserId = RemoveKey(@, m_remoteEndpoint),
                          !.m_userIdToUser = RemoveKey(@, userId)]
    IN IF Len(m_tempBufferIn) # 8 THEN kill
       ELSE IF BigToNative(Val(m_tempBufferIn, hostEndian), hostEndian)
                   # s.m_userIdToUser[userId].m_handshakeCheck THEN kill
       ELSE [s EXCEPT !.m_userIdToUser[userId].m_validated = TRUE,
                      !.m_userIdToUser[userId].m_lastMessageTime = now,
                      !.nValidate[userId] = @ + 1]

\* server::ProcessMessage
ProcessMessage_NoRefresh(s, userId, m_tempBufferIn, now) ==
    IF Len(m_tempBufferIn) < HeaderSize THEN s
    ELSE [s EXCEPT !.m_qMessagesIn =
              Append(@, [m_remote |-> userId,
                         m_msg |-> [m_header |-> HeaderOf(SubSeq(m_tempBufferIn, 1, HeaderSize), "big"),
                                    m_body |-> SubSeq(m_tempBufferIn, HeaderSize + 1,
                                                      Len(m_tempBufferIn))]])]
ProcessMessage_RefreshesAlways(s, userId, m_tempBufferIn, now) ==
    LET t == [s EXCEPT !.m_userIdToUser[userId].m_lastMessageTime = now]
    IN IF Len(m_tempBufferIn) < HeaderSize THEN t
       ELSE LET raw == HeaderOf(SubSeq(m_tempBufferIn, 1, HeaderSize), hostEndian)
                size == BigToNative(raw.m_size, hostEndian)
                msg == [m_header |-> [m_type |-> raw.m_type, m_size |-> size],
                        m_body |-> SubSeq(m_tempBufferIn, HeaderSize + 1, Len(m_tempBufferIn))]
            IN IF U32(Len(m_tempBufferIn) - HeaderSize) # size THEN t
               ELSE [t EXCEPT !.m_qMessagesIn = Append(@, [m_remote |-> userId, m_msg |-> msg])]
ProcessMessage(s, userId, m_tempBufferIn, now) ==
    IF Len(m_tempBufferIn) < HeaderSize THEN s
    ELSE LET raw == HeaderOf(SubSeq(m_tempBufferIn, 1, HeaderSize), hostEndian)
             size == BigToNative(raw.m_size, hostEndian)
             msg == [m_header |-> [m_type |-> raw.m_type, m_size |-> size],
                     m_body |-> SubSeq(m_tempBufferIn, HeaderSize + 1, Len(m_tempBufferIn))]
         IN IF U32(Len(m_tempBufferIn) - HeaderSize) # size THEN s
            ELSE [s EXCEPT !.m_userIdToUser[userId].m_lastMessageTime = now,
                           !.m_qMessagesIn = Append(@, [m_remote |-> userId, m_msg |-> msg])]

WaitForMessages_NoGate(s, m_remoteEndpoint, m_tempBufferIn, now, disconnectedUsers, accept) ==
    LET c == Log(CleanupUsers(s, now, disconnectedUsers), <<"dispatch", m_remoteEndpoint, m_tempBufferIn>>)
    IN IF m_remoteEndpoint \notin DOMAIN c.m_endpointToUserId
         THEN HandleNewConnection(c, m_remoteEndpoint, m_tempBufferIn, now, accept)
         ELSE ProcessMessage(c, c.m_endpointToUserId[m_remoteEndpoint], m_tempBufferIn, now)

\* the completion handler of async_receive_from in server::WaitForMessages, without error
WaitForMessages(s, m_remoteEndpoint, m_tempBufferIn, now, disconnectedUsers, accept) ==
    LET c == Log(CleanupUsers(s, now, disconnectedUsers), <<"dispatch", m_remoteEndpoint, m_tempBufferIn>>)
    IN IF m_remoteEndpoint \notin DOMAIN c.m_endpointToUserId
         THEN HandleNewConnection(c, m_remoteEndpoint, m_tempBufferIn, now, accept)
         ELSE LET userId == c.m_endpointToUserId[m_remoteEndpoint]
              IN IF c.m_userIdToUser[userId].m_validated = FALSE
                   THEN HandleValidation(c, m_remoteEndpoint, userId, m_tempBufferIn, now)
                   ELSE ProcessMessage(c, userId, m_tempBufferIn, now)

\* server::SendMessages, the loop that drops the leading messages of unknown users
RECURSIVE PurgeFront(_)
PurgeFront(s) ==
    IF s.m_qMessagesOut = <<>> THEN s
    ELSE IF s.m_qMessagesOut[1].m_remote \in DOMAIN s.m_userIdToUser THEN s
    ELSE PurgeFront(Log([s EXCEPT !.m_qMessagesOut = Tail(@)],
                        <<"drop", s.m_qMessagesOut[1].m_remote>>))

\* server::SendMessages
SendMessages_TakesBack(s, now, disconnectedUsers) ==
    IF s.m_qMessagesOut = <<>> THEN s
    ELSE LET p == PurgeFront(CleanupUsers(s, now, disconnectedUsers))
         IN IF p.m_qMessagesOut = <<>> \/
               p.m_qMessagesOut[Len(p.m_qMessagesOut)].m_remote \notin DOMAIN p.m_userIdToUser
              THEN p
            ELSE LET taggedMsg == p.m_qMessagesOut[Len(p.m_qMessagesOut)]
                     userId == taggedMsg.m_remote
                     msg == taggedMsg.m_msg
                     m_tempBufferOut == HeaderBytes(msg.m_header, hostEndian) \o msg.m_body
                 IN [Log(p, <<"async_send_to", userId>>) EXCEPT !.sending = TRUE,
                              !.sent = Append(@, [m_remote |-> userId,
                                                  to |-> p.m_userIdToUser[userId].m_endpoint,
                                                  data |-> SubSeq(m_tempBufferOut, 1, MsgSize(msg))])]

SendMessages(s, now, disconnectedUsers) ==
    IF s.m_qMessagesOut = <<>> THEN s
    ELSE LET p == PurgeFront(CleanupUsers(s, now, disconnectedUsers))
         IN IF p.m_qMessagesOut = <<>> THEN p
            ELSE LET taggedMsg == p.m_qMessagesOut[1]
                     userId == taggedMsg.m_remote
                     msg == taggedMsg.m_msg
                     m_tempBufferOut == HeaderBytes(msg.m_header, hostEndian) \o msg.m_body
                 IN [Log(p, <<"async_send_to", userId>>) EXCEPT !.sending = TRUE,
                              !.sent = Append(@, [m_remote |-> userId,
                                                  to |-> p.m_userIdToUser[userId].m_endpoint,
                                                  data |-> SubSeq(m_tempBufferOut, 1, MsgSize(msg))])]

\* server::Send on the calling thread: the pair <<handlers posted, msg afterwards>>
Send(posted, userId, msg) ==
    IF MsgSize(msg) > MAX_MESSAGE_SIZE_IN_BYTES THEN <<posted, msg>>
    ELSE <<Append(posted, [userId |-> userId, msg |-> msg]), MovedFrom(msg)>>

\* server::MessageAllClients: the loop over m_userIdToUser, met in the order `users`
RECURSIVE MessageAllLoop(_, _, _, _, _)
MessageAllLoop(posted, users, i, msg, ignoreId) ==
    IF i > Len(users) THEN posted
    ELSE IF users[i] = ignoreId THEN MessageAllLoop(posted, users, i + 1, msg, ignoreId)
    ELSE LET r == Send(posted, users[i], msg)
         IN MessageAllLoop(r[1], users, i + 1, r[2], ignoreId)

\* the runs in which the application sends: there the peers send nothing but
\* requests and answers, and OnClientConnect accepts; the runs of the pipeline
\* have more calls of MessageClient and MessageAllClients, peers that send
\* requests only, and no receive errors
Broadcasting == variant \in {"broadcast", "pipeline"}
UdpSendBudget == IF variant = "pipeline" THEN MaxPipelineSends ELSE MaxUdpSends

\* the datagrams a peer at endpoint e may send: a connection request, eight zero
\* bytes, the answer to the challenge it was sent last, a datagram that is too short,
\* a well-formed message, and a message whose size field disagrees with its length
EncodeMessage(msg) ==
    HeaderBytes([msg.m_header EXCEPT !.m_size = NativeToBig(@, hostEndian)], hostEndian)
        \o msg.m_body
Datagrams(e) ==
    {Mem(NativeToBig(CONNECTION_REQUEST_MAGIC_NUMBER, hostEndian), hostEndian)}
    \cup (IF udp.challenge[e] = <<>> \/ variant = "pipeline" THEN {}
          ELSE {Mem(NativeToBig(
                    ScrambleOf(BigToNative(Val(udp.challenge[e], hostEndian), hostEndian)),
                    hostEndian), hostEndian)})
    \cup (IF Broadcasting THEN {}
          ELSE {<<0, 0, 0, 0, 0, 0, 0, 0>>, <<1, 2, 3>>,
                EncodeMessage(UdpMsg), EncodeMessage(UdpMsg) \o <<9>>})

\* a datagram arrives: the completion handler of WaitForMessages runs without error
UdpReceive(e, accept) ==
    /\ UdpStep
    /\ Broadcasting => accept
    /\ udp.running
    /\ \E d \in Datagrams(e), disconnectedUsers \in Orders(TimedOut(udp, udpNow)) :
         udp' = WaitForMessages([udp EXCEPT !.trace = <<>>], e, d, udpNow,
                                disconnectedUsers, accept)
    /\ udp'.m_uidCounter <= FirstClientId + MaxUdpUsers
    /\ Len(udp'.m_qMessagesIn) <= MaxUdpIn
    /\ UNCHANGED <<udpPosted, udpNow>>

\* async_receive_from completes with an error: the handler only waits again
UdpReceiveError ==
    /\ UdpStep
    /\ variant # "pipeline"
    /\ udp.running
    /\ udp' = [udp EXCEPT !.trace = <<<<"receive error">>>>]
    /\ UNCHANGED <<udpPosted, udpNow>>

\* server::MessageClient on the application thread
UdpMessageClient(clientId, msg) ==
    /\ UdpStep
    /\ Broadcasting
    /\ udp.nSendCalls < UdpSendBudget
    /\ udpPosted' = Send(udpPosted, clientId, msg)[1]
    /\ udp' = [udp EXCEPT !.trace = <<>>, !.nSendCalls = @ + 1]
    /\ UNCHANGED udpNow

\* server::MessageAllClients on the application thread
UdpMessageAllClients(msg, ignoreId) ==
    /\ UdpStep
    /\ Broadcasting
    /\ variant = "pipeline" => ignoreId = INVALID_USER_ID
    /\ udp.nSendCalls < UdpSendBudget
    /\ \E users \in Orders(DOMAIN udp.m_userIdToUser) :
         /\ udpPosted' = MessageAllLoop(udpPosted, users, 1, msg, ignoreId)
         /\ udp' = [udp EXCEPT !.trace = <<<<"MessageAllClients", msg, ignoreId, users>>>>,
                               !.nSendCalls = @ + 1]
    /\ UNCHANGED udpNow

\* the handler Send posted runs on the executor
UdpSendPosted ==
    /\ UdpStep
    /\ udp.running
    /\ udpPosted # <<>>
    /\ LET userId == udpPosted[1].userId
           msg == udpPosted[1].msg
           writing == udp.m_qMessagesOut # <<>>
           swapped == [msg EXCEPT !.m_header.m_size = NativeToBig(@, hostEndian)]
           pushed == [udp EXCEPT !.trace = <<>>,
                                 !.m_qMessagesOut = Append(@, [m_remote |-> userId,
                                                               m_msg |-> swapped])]
       IN IF ~writing
            THEN \E disconnectedUsers \in Orders(TimedOut(udp, udpNow)) :
                    udp' = SendMessages(pushed, udpNow, disconnectedUsers)
            ELSE udp' = pushed
    /\ udpPosted' = Tail(udpPosted)
    /\ UNCHANGED udpNow

\* the completion handler of async_send_to in server::SendMessages
UdpSendDone(ec) ==
    /\ UdpStep
    /\ udp.running
    /\ udp.sending
    /\ LET done == [udp EXCEPT !.trace = <<>>, !.sending = FALSE]
           popped == [done EXCEPT !.m_qMessagesOut = Tail(@)]
       IN IF ~ec
            THEN IF popped.m_qMessagesOut # <<>>
                   THEN \E disconnectedUsers \in Orders(TimedOut(udp, udpNow)) :
                           udp' = SendMessages(popped, udpNow, disconnectedUsers)
                   ELSE udp' = popped
            ELSE udp' = Log(done, <<"send error">>)
    /\ UNCHANGED <<udpPosted, udpNow>>

\* server::Update: one turn of the loop, OnMessage for the front of m_qMessagesIn
UdpUpdate ==
    /\ UdpStep
    /\ udp.m_qMessagesIn # <<>>
    /\ udp' = [udp EXCEPT !.trace = <<>>, !.m_qMessagesIn = Tail(@)]
    /\ UNCHANGED <<udpPosted, udpNow>>

\* the clock advances
UdpTick ==
    /\ UdpStep
    /\ udpNow < MaxTime
    /\ udpNow' = udpNow + 1
    /\ udp' = [udp EXCEPT !.trace = <<>>]
    /\ UNCHANGED udpPosted

UdpNext ==
    \/ UdpStart
    \/ \E e \in Endpoints, accept \in BOOLEAN : UdpReceive(e, accept)
    \/ UdpReceiveError
    \/ \E id \in UdpIds : UdpMessageClient(id, UdpMsg)
    \/ \E ignoreId \in UdpIds \cup {INVALID_USER_ID} : UdpMessageAllClients(UdpMsg, ignoreId)
    \/ UdpSendPosted
    \/ \E ec \in BOOLEAN : UdpSendDone(ec)
    \/ UdpUpdate
    \/ UdpTick

(***************************************************************************)
(* tcp::server                                                             *)
(*                                                                         *)
(* The registry m_activeConnections maps an id to its connection; of a     *)
(* connection the server reads IsConnected() only, so a connection is held *)
(* as the state of its socket and of its handshake.                        *)
(***************************************************************************)
TcpIds == FirstClientId..(FirstClientId + MaxTcpClients - 1)
TcpMsg == Message(2, <<7>>)

TcpInit ==
    tcp = [m_uidCounter |-> FirstClientId,
           m_activeConnections |-> <<>>,
           running |-> FALSE,          \* m_threadContext runs m_asioContext
           terminated |-> FALSE,       \* the process was ended by undefined behaviour
           \* what the server did, for the claims
           trace |-> <<>>,             \* the steps of the call or handler that ran last
           assigned |-> <<>>,          \* the ids given out, in order
           denied |-> FALSE,           \* OnClientConnect has returned false
           acceptError |-> FALSE,      \* async_accept has completed with an error
           accepting |-> 0,            \* async_accept operations pending on m_asioAcceptor
           m_qMessagesIn |-> <<>>,     \* the remote ids of the tagged messages queued
           posted |-> <<>>,            \* the connections of the handlers Send has posted
           cancelled |-> {},           \* connections with a cancelled operation whose
                                       \* handler has not run yet
           acceptSteps |-> <<>>,       \* the steps of the accept handler, if it ran last
           nValidate |-> [i \in TcpIds |-> 0],    \* calls of OnClientValidate
           nDisconnect |-> [i \in TcpIds |-> 0],  \* calls of OnClientDisconnect
           nCalls |-> 0]               \* calls of MessageClient and MessageAllClients

\* a step of the stream server leaves the other parts alone
TcpStep ==
    /\ variant \in {"stream-server", "stream-sessions"}
    /\ ~tcp.terminated
    /\ UNCHANGED <<variant, hostEndian, dqVars, udpVars, conVars, lifeVars, updVars, dgcVars, tclVars, sqVars, msgVars, thrVars>>

TcpLog(s, event) == [s EXCEPT !.trace = Append(@, event)]

\* the variant that follows the handlers of the sessions on the executor; in the
\* variant stream-server a handler that Send posts is taken to run at once, as it
\* changes nothing the server reads
Sessions == variant = "stream-sessions"

\* connection::Send called by the server: the handler is posted to m_asioContext
TcpSend(s, id, msg) ==
    IF Sessions THEN [TcpLog(s, <<"Send", id, msg>>) EXCEPT !.posted = Append(@, id)]
    ELSE TcpLog(s, <<"Send", id, msg>>)

\* connection::IsConnected of the connection registered under id
IsConnected(s, id) == s.m_activeConnections[id].open

AcceptLog(s, step) == [s EXCEPT !.acceptSteps = Append(@, step)]

\* m_asioAcceptor.async_accept in server::WaitForClientConnection
AsyncAccept(s) == [s EXCEPT !.accepting = @ + 1]

\* async_accept completes and its handler starts; the first step of the handler
\* holds the error code and the ids registered at that moment
AcceptCompletes(s, ec) ==
    [s EXCEPT !.accepting = @ - 1,
              !.acceptSteps = <<<<"accept", ec, DOMAIN s.m_activeConnections>>>>]

\* connection::ConnectToClient of the connection registered under uid, reached by
\* m_activeConnections.at(uid): with an open socket it starts the handshake
TcpConnectToClient(s, uid) ==
    IF IsConnected(s, uid)
      THEN [AcceptLog(s, <<"ConnectToClient", uid>>) EXCEPT
               !.m_activeConnections[uid].handshake = TRUE]
    ELSE s

\* server::Start
TcpStart ==
    /\ TcpStep
    /\ ~tcp.running
    /\ tcp' = AsyncAccept([tcp EXCEPT !.running = TRUE, !.trace = <<>>])

\* the completion handler of async_accept in server::WaitForClientConnection, up to
\* the end of its if statement; accept is the result of OnClientConnect.  A denied
\* new_connection is destroyed at the end of its block, which closes its socket
HandleAccept(s, ec, accept) ==
    IF ec THEN [s EXCEPT !.acceptError = TRUE]
    ELSE IF ~accept
      THEN AcceptLog([TcpLog(AcceptLog(s, <<"OnClientConnect", FALSE>>),
                             <<"OnClientConnect", FALSE>>) EXCEPT !.denied = TRUE],
                     <<"~connection">>)
    ELSE LET newId == s.m_uidCounter
             emplaced == [TcpLog(AcceptLog(s, <<"OnClientConnect", TRUE>>),
                                 <<"OnClientConnect", TRUE>>) EXCEPT
                             !.m_uidCounter = @ + 1,
                             !.assigned = Append(@, newId),
                             !.m_activeConnections =
                                 (newId :> [open |-> TRUE, validated |-> FALSE,
                                            handshake |-> FALSE]) @@ @]
         IN TcpConnectToClient(AcceptLog(emplaced, <<"emplace", newId>>), newId)

\* the completion handler of async_accept in server::WaitForClientConnection: the
\* accept that completed is no longer pending, and the handler ends with
\* WaitForClientConnection() whatever happened
WaitForClientConnection_StopsOnError(s, ec, accept) ==
    LET completed == AcceptCompletes(s, ec)
        handled == HandleAccept(completed, ec, accept)
    IN IF ec THEN handled ELSE AsyncAccept(AcceptLog(handled, <<"WaitForClientConnection">>))

WaitForClientConnection(s, ec, accept) ==
    LET completed == AcceptCompletes(s, ec)
        handled == HandleAccept(completed, ec, accept)
    IN AsyncAccept(AcceptLog(handled, <<"WaitForClientConnection">>))

TcpAccept(ec, accept) ==
    /\ TcpStep
    /\ tcp.running
    /\ tcp.accepting > 0
    /\ tcp' = WaitForClientConnection([tcp EXCEPT !.trace = <<>>], ec, accept)
    /\ tcp'.m_uidCounter <= FirstClientId + MaxTcpClients
    /\ Sessions => tcp'.m_uidCounter <= FirstClientId + MaxSessionClients

\* connection::ReadValidation reads the expected answer: the connection is validated
\* and OnClientValidate is called
TcpValidated(id) ==
    /\ TcpStep
    /\ tcp.running
    /\ id \in DOMAIN tcp.m_activeConnections
    /\ IsConnected(tcp, id)
    /\ ~tcp.m_activeConnections[id].validated
    /\ tcp' = [tcp EXCEPT !.trace = <<<<"OnClientValidate", id>>>>,
                          !.acceptSteps = <<>>,
                          !.m_activeConnections[id].validated = TRUE,
                          !.nValidate[id] = @ + 1]

\* server::OnClientDisconnect is called
TcpOnClientDisconnect(s, id) ==
    [TcpLog(s, <<"OnClientDisconnect", id>>) EXCEPT !.nDisconnect[id] = @ + 1]

\* the error branch of a handler of the connection registered under id:
\* m_socket.close(), and nothing else
CloseOnError_TellsServer(s, id) ==
    TcpOnClientDisconnect([s EXCEPT !.m_activeConnections = RemoveKey(@, id)], id)

CloseOnError(s, id) == [s EXCEPT !.m_activeConnections[id].open = FALSE]

\* a handler of the connection closes its socket: a wrong answer to the handshake,
\* or a read or a write that failed
TcpSocketClosed(id) ==
    /\ TcpStep
    /\ tcp.running
    /\ id \in DOMAIN tcp.m_activeConnections
    /\ IsConnected(tcp, id)
    /\ tcp' = CloseOnError([tcp EXCEPT !.trace = <<>>, !.acceptSteps = <<>>], id)

\* m_activeConnections.erase(m_activeConnections.end()) is undefined: the build may
\* leave the map as it is or end the process
EraseEndOutcomes == {"unchanged", "terminated"}

\* server::MessageClient
MessageClient(s, clientId, msg, eraseEnd) ==
    IF clientId \in DOMAIN s.m_activeConnections /\ IsConnected(s, clientId)
      THEN TcpSend(s, clientId, msg)
    ELSE IF clientId \in DOMAIN s.m_activeConnections
      THEN TcpOnClientDisconnect(
               TcpLog([s EXCEPT !.m_activeConnections = RemoveKey(@, clientId)],
                      <<"erase", clientId>>), clientId)
    ELSE IF eraseEnd = "terminated" THEN [s EXCEPT !.terminated = TRUE]
    ELSE TcpOnClientDisconnect(s, clientId)

\* server::MessageAllClients, first loop over m_activeConnections met in the order
\* `ids`: the pair <<server, disconnectedClients>>
RECURSIVE TcpSendLoop(_, _, _, _, _, _)
TcpSendLoop_NoIgnore(s, ids, i, msg, ignoreClient, disconnectedClients) ==
    IF i > Len(ids) THEN <<s, disconnectedClients>>
    ELSE IF IsConnected(s, ids[i])
      THEN TcpSendLoop(TcpSend(s, ids[i], msg), ids, i + 1, msg, INVALID_USER_ID,
                       disconnectedClients)
    ELSE TcpSendLoop(s, ids, i + 1, msg, INVALID_USER_ID, Append(disconnectedClients, ids[i]))
TcpSendLoop(s, ids, i, msg, ignoreClient, disconnectedClients) ==
    IF i > Len(ids) THEN <<s, disconnectedClients>>
    ELSE IF ids[i] = ignoreClient
      THEN TcpSendLoop(s, ids, i + 1, msg, ignoreClient, disconnectedClients)
    ELSE IF IsConnected(s, ids[i])
      THEN LET msgCopy == msg
           IN TcpSendLoop(TcpSend(s, ids[i], msgCopy), ids, i + 1, msg,
                          ignoreClient, disconnectedClients)
    ELSE TcpSendLoop(s, ids, i + 1, msg, ignoreClient, Append(disconnectedClients, ids[i]))

\* server::MessageAllClients, second loop: erase the disconnected clients
RECURSIVE TcpEraseLoop(_, _, _)
TcpEraseLoop(s, disconnectedClients, i) ==
    IF i > Len(disconnectedClients) THEN s
    ELSE TcpEraseLoop(
             TcpLog([s EXCEPT !.m_activeConnections = RemoveKey(@, disconnectedClients[i])],
                    <<"erase", disconnectedClients[i]>>),
             disconnectedClients, i + 1)

\* server::MessageAllClients, third loop: OnClientDisconnect for each of them
RECURSIVE TcpNotifyLoop(_, _, _)
TcpNotifyLoop(s, disconnectedClients, i) ==
    IF i > Len(disconnectedClients) THEN s
    ELSE TcpNotifyLoop(TcpOnClientDisconnect(s, disconnectedClients[i]),
                       disconnectedClients, i + 1)

\* server::MessageAllClients
MessageAllClients(s, msg, ignoreClient, ids) ==
    LET sendLoop == TcpSendLoop(s, ids, 1, msg, ignoreClient, <<>>)
    IN TcpNotifyLoop(TcpEraseLoop(sendLoop[1], sendLoop[2], 1), sendLoop[2], 1)

\* the application calls MessageClient
TcpMessageClient(clientId, msg) ==
    /\ TcpStep
    /\ tcp.nCalls < MaxTcpCalls
    /\ \E eraseEnd \in EraseEndOutcomes :
         tcp' = MessageClient([tcp EXCEPT !.trace = <<>>, !.acceptSteps = <<>>,
                                           !.nCalls = @ + 1], clientId, msg, eraseEnd)

\* the application calls MessageAllClients; the trace opens with the call and with
\* IsConnected() of every connection of the registry
TcpMessageAllClients(msg, ignoreClient) ==
    /\ TcpStep
    /\ tcp.nCalls < MaxTcpCalls
    /\ \E ids \in Orders(DOMAIN tcp.m_activeConnections) :
         LET connected == [id \in DOMAIN tcp.m_activeConnections |-> IsConnected(tcp, id)]
             called == [tcp EXCEPT !.nCalls = @ + 1, !.acceptSteps = <<>>,
                           !.trace = <<<<"MessageAllClients", msg, ignoreClient, connected>>>>]
         IN tcp' = MessageAllClients(called, msg, ignoreClient, ids)

TcpNext ==
    \/ TcpStart
    \/ \E ec \in BOOLEAN, accept \in BOOLEAN : TcpAccept(ec, accept)
    \/ \E id \in TcpIds : TcpValidated(id)
    \/ \E id \in TcpIds : TcpSocketClosed(id)
    \/ \E id \in TcpIds : TcpMessageClient(id, TcpMsg)
    \/ \E ignoreClient \in TcpIds \cup {INVALID_USER_ID} : TcpMessageAllClients(TcpMsg, ignoreClient)

\* a handler of the connection registered under id closes its socket while another
\* operation of the connection is outstanding (the read while a write fails, or a
\* write while the read fails): close() cancels it, and its handler is still to run
TcpCloseCancels(id) ==
    /\ TcpStep
    /\ Sessions
    /\ tcp.running
    /\ id \in DOMAIN tcp.m_activeConnections
    /\ IsConnected(tcp, id)
    /\ tcp' = [CloseOnError([tcp EXCEPT !.trace = <<>>, !.acceptSteps = <<>>], id) EXCEPT
                  !.cancelled = @ \cup {id}]

\* a handler runs with the `this` of a connection that was destroyed: the build may
\* go on as if nothing had happened or end the process
UseAfterFreeOutcomes == {"unnoticed", "terminated"}

HandlerOf(s, id, outcome) ==
    IF id \in DOMAIN s.m_activeConnections \/ outcome = "unnoticed" THEN s
    ELSE [s EXCEPT !.terminated = TRUE]

\* the executor runs the handler of an operation that was cancelled: its error
\* branch reads m_id and closes m_socket
TcpCancelledHandler(id) ==
    /\ TcpStep
    /\ id \in tcp.cancelled
    /\ \E outcome \in UseAfterFreeOutcomes :
         tcp' = HandlerOf([tcp EXCEPT !.trace = <<<<"handler", id>>>>, !.acceptSteps = <<>>,
                                      !.cancelled = @ \ {id}], id, outcome)

\* the executor runs the handler that Send posted first: it reads and writes
\* m_qMessagesOut of its connection and calls WriteHeader
TcpRunPosted ==
    /\ TcpStep
    /\ tcp.posted # <<>>
    /\ \E outcome \in UseAfterFreeOutcomes :
         tcp' = HandlerOf([tcp EXCEPT !.trace = <<<<"SendPosted", Head(tcp.posted)>>>>,
                                      !.acceptSteps = <<>>, !.posted = Tail(@)],
                          Head(tcp.posted), outcome)

\* connection::AddToIncomingMessageQueue of the validated connection registered
\* under id, in the handler of a read that succeeded
TcpAddToIncomingMessageQueue(id) ==
    /\ TcpStep
    /\ Sessions
    /\ tcp.running
    /\ id \in DOMAIN tcp.m_activeConnections
    /\ IsConnected(tcp, id)
    /\ tcp.m_activeConnections[id].validated
    /\ Len(tcp.m_qMessagesIn) < MaxTcpIn
    /\ tcp' = [tcp EXCEPT !.trace = <<>>, !.acceptSteps = <<>>,
                          !.m_qMessagesIn = Append(@, id)]

\* server::Update, one turn of its loop: pop_front and OnMessage
TcpUpdate ==
    /\ TcpStep
    /\ tcp.m_qMessagesIn # <<>>
    /\ tcp' = [tcp EXCEPT !.trace = <<<<"OnMessage", Head(tcp.m_qMessagesIn)>>>>,
                          !.acceptSteps = <<>>, !.m_qMessagesIn = Tail(@)]

\* the stream server with the handlers of its sessions
SessionsNext ==
    \/ TcpNext
    \/ \E id \in TcpIds : TcpCloseCancels(id)
    \/ \E id \in TcpIds : TcpCancelledHandler(id)
    \/ TcpRunPosted
    \/ \E id \in TcpIds : TcpAddToIncomingMessageQueue(id)
    \/ TcpUpdate

(***************************************************************************)
(* tcp::connection                                                         *)
(*                                                                         *)
(* One session: the connection the server owns and the connection the      *)
(* client owns, joined by a byte stream in each direction.  Each side has  *)
(* its own io_context run by one thread, so a handler runs to its end      *)
(* before the next one of that side starts.  An asynchronous write hands   *)
(* its bytes to the stream when it is started and completes later; an      *)
(* asynchronous read completes once the bytes it asked for have arrived.   *)
(***************************************************************************)
RECURSIVE HeldBytes(_, _)
Sides == {"server", "client"}
Peer(side) == IF side = "server" THEN "client" ELSE "server"
SERVER_USER_ID == 0
ValidationSize == 8

\* what lies in the stack slot of a local variable after its function returned
StaleStack == <<0, 0, 0, 0, 0, 0, 0, 0>>

\* a connection before its owner has constructed it
NoConnection ==
    [up |-> FALSE,                  \* the object exists
     open |-> FALSE,                \* m_socket.is_open()
     established |-> FALSE,         \* m_socket is connected to the peer
     holds |-> FALSE,               \* m_socket keeps a write started while it connects
     m_id |-> INVALID_USER_ID,
     m_handshakeOut |-> ToU64(0),
     m_handshakeIn |-> ToU64(0),
     m_handshakeCheck |-> ToU64(0),
     m_qMessagesOut |-> <<>>,
     m_msgTemporaryIn |-> Message(0, <<>>),
     m_qMessagesIn |-> <<>>,        \* the inbound queue of the owner
     posted |-> <<>>,               \* handlers posted by Send, in posting order
     read |-> "none",               \* the asynchronous read in flight
     need |-> 0,                    \* the number of bytes it waits for
     writes |-> <<>>,               \* the asynchronous writes in flight, in starting order
     out |-> <<>>,                  \* bytes on their way to the peer
     \* what the connection did, for the claims
     put |-> <<>>,                  \* all bytes handed to the stream
     answer |-> <<>>,               \* the bytes ReadValidation received
     nValidate |-> 0,               \* calls of OnClientValidate
     handshakeDone |-> FALSE,       \* the client has written its answer
     sendLog |-> <<>>,              \* the messages given to Send, in call order
     putAtAnswer |-> 0,             \* the length of put when ReadValidation completed
     earlySend |-> FALSE]           \* Send was called before this side was validated

ConInit ==
    con = [server |-> NoConnection, client |-> NoConnection,
           error |-> FALSE,         \* the transport has failed an operation
           denied |-> FALSE,        \* OnClientConnect has returned false
           nSends |-> 0]            \* calls of Send

\* a step of the session leaves the other parts alone
ConStep == variant = "stream" /\ UNCHANGED <<variant, hostEndian, dqVars, udpVars, tcpVars, lifeVars, updVars, dgcVars, tclVars, sqVars, msgVars, thrVars>>

\* uint32_t as a number; 65536 stands for every value from 65536 on
TooBig == 65536
U32Value(d) == IF d[1] = 0 /\ d[2] = 0 THEN d[3] * 256 + d[4] ELSE TooBig

\* m_socket.close()
Close(c) == [c EXCEPT !.open = FALSE, !.established = FALSE]

\* boost::asio::async_write started on m_socket: a connected socket takes the
\* bytes; a socket that is still connecting keeps them until it is connected or
\* fails the write, as the platform has it; a closed socket fails the write
AsyncWrite(c, kind, bytes) ==
    IF c.open /\ c.established
      THEN [c EXCEPT !.writes = Append(@, [kind |-> kind, taken |-> TRUE, held |-> <<>>]),
                     !.out = @ \o bytes, !.put = @ \o bytes]
    ELSE IF c.open /\ c.read = "connect" /\ c.holds
      THEN [c EXCEPT !.writes = Append(@, [kind |-> kind, taken |-> FALSE, held |-> bytes])]
    ELSE [c EXCEPT !.writes = Append(@, [kind |-> kind, taken |-> FALSE, held |-> <<>>])]

\* the socket is connected: it takes the bytes of the writes it has kept
HeldBytes(writes, i) ==
    IF i > Len(writes) THEN <<>> ELSE writes[i].held \o HeldBytes(writes, i + 1)
Connected(c) ==
    [c EXCEPT !.established = TRUE,
              !.out = @ \o HeldBytes(c.writes, 1),
              !.put = @ \o HeldBytes(c.writes, 1),
              !.writes = [i \in 1..Len(@) |->
                              IF @[i].held # <<>>
                                THEN [@[i] EXCEPT !.taken = TRUE, !.held = <<>>]
                                ELSE @[i]]]

\* boost::asio::async_read started on m_socket for n bytes
AsyncRead(c, kind, n) == [c EXCEPT !.read = kind, !.need = n]

\* connection::connection
Connection(side, now) ==
    IF side = "server"
      THEN [NoConnection EXCEPT !.up = TRUE,
                                !.m_handshakeOut = ScrambleOf(ClockCount(now)),
                                !.m_handshakeCheck = ScrambleOf(ScrambleOf(ClockCount(now)))]
      ELSE [NoConnection EXCEPT !.up = TRUE]

\* connection::WriteValidation.  The buffer of the write is the local variable
\* handshakeOut, which is gone when WriteValidation returns while the write may
\* read it until it completes: `stale` says the write read it after the return.
WriteValidation(c, stale) ==
    LET handshakeOut == NativeToBig(c.m_handshakeOut, hostEndian)
    IN AsyncWrite(c, "validation", IF stale THEN StaleStack ELSE Mem(handshakeOut, hostEndian))

\* connection::ReadValidation and connection::ReadHeader, the call
ReadValidation(c) == AsyncRead(c, "validation", ValidationSize)
ReadHeader(c) == AsyncRead(c, "header", HeaderSize)

\* connection::ReadBody, the call
ReadBody(c) == AsyncRead(c, "body", Len(c.m_msgTemporaryIn.m_body))

\* connection::AddToIncomingMessageQueue
AddToIncomingMessageQueue(c) ==
    ReadHeader([c EXCEPT !.m_qMessagesIn = Append(@, [m_remote |-> c.m_id,
                                                      m_msg |-> c.m_msgTemporaryIn]),
                         !.m_msgTemporaryIn = MovedFrom(@)])

\* connection::WriteHeader and connection::WriteBody, the call
WriteHeader(c) ==
    AsyncWrite(c, "header", HeaderBytes(c.m_qMessagesOut[1].m_header, hostEndian))
WriteBody(c) == AsyncWrite(c, "body", c.m_qMessagesOut[1].m_body)

\* the completion handler of ReadValidation's read
HandshakeMatches_Always(handshakeIn, handshakeCheck) == TRUE
HandshakeMatches(handshakeIn, handshakeCheck) == handshakeIn = handshakeCheck
ReadValidationDone(side, c, ec, bytes, stale) ==
    IF ec THEN Close(c)
    ELSE LET in == [c EXCEPT !.m_handshakeIn = BigToNative(Val(bytes, hostEndian), hostEndian),
                             !.answer = bytes, !.putAtAnswer = Len(c.put)]
         IN IF side = "server"
              THEN IF HandshakeMatches(in.m_handshakeIn, in.m_handshakeCheck)
                     THEN ReadHeader([in EXCEPT !.nValidate = @ + 1])
                     ELSE Close(in)
              ELSE WriteValidation([in EXCEPT !.m_handshakeOut = ScrambleOf(in.m_handshakeIn)],
                                   stale)

\* the completion handler of WriteValidation's write
WriteValidationDone(side, c, ec) ==
    IF ec THEN Close(c)
    ELSE IF side = "client" THEN ReadHeader([c EXCEPT !.handshakeDone = TRUE])
    ELSE c

\* std::vector::resize
Resize_Keep(body, n) == body
Resize(body, n) == [i \in 1..n |-> IF i <= Len(body) THEN body[i] ELSE 0]

\* the completion handler of ReadHeader's read; a body of TooBig bytes is not
\* built, its read never completes
ReadHeaderDone(c, ec, bytes) ==
    IF ec THEN Close(c)
    ELSE LET received == HeaderOf(bytes, hostEndian)
             m_size == BigToNative(received.m_size, hostEndian)
             n == U32Value(m_size)
             in == [c EXCEPT !.m_msgTemporaryIn =
                        [m_header |-> [received EXCEPT !.m_size = m_size],
                         m_body |-> IF n = TooBig THEN <<>> ELSE Resize(@.m_body, n)]]
         IN IF n = TooBig THEN AsyncRead(in, "body", TooBig)
            ELSE IF n > 0 THEN ReadBody(in)
            ELSE AddToIncomingMessageQueue(in)

\* the completion handler of ReadBody's read
ReadBodyDone(c, ec, bytes) ==
    IF ec THEN Close(c)
    ELSE AddToIncomingMessageQueue([c EXCEPT !.m_msgTemporaryIn.m_body = bytes])

\* m_qMessagesOut.pop_front() and the restart of the write loop
PopAndContinue(c) ==
    LET popped == [c EXCEPT !.m_qMessagesOut = Tail(@)]
    IN IF popped.m_qMessagesOut # <<>> THEN WriteHeader(popped) ELSE popped

\* the completion handler of WriteHeader's write
WriteHeaderDone(c, ec) ==
    IF ec THEN Close(c)
    ELSE IF Len(c.m_qMessagesOut[1].m_body) > 0 THEN WriteBody(c)
    ELSE PopAndContinue(c)

\* the completion handler of WriteBody's write
WriteBodyDone(c, ec) == IF ec THEN Close(c) ELSE PopAndContinue(c)

\* the handler connection::Send posts
Writing_Never(q) == FALSE
Writing(q) == q # <<>>
SendPosted(c, msg) ==
    LET writing == Writing(c.m_qMessagesOut)
        big == [msg EXCEPT !.m_header.m_size = NativeToBig(@, hostEndian)]
        pushed == [c EXCEPT !.m_qMessagesOut = Append(@, big)]
    IN IF ~writing THEN WriteHeader(pushed) ELSE pushed

\* connection::ConnectToClient
ConnectToClient(c, uid, stale) ==
    IF c.open THEN ReadValidation(WriteValidation([c EXCEPT !.m_id = uid], stale)) ELSE c

\* connection::ConnectToServer, the call: async_connect opens the socket
ConnectToServer(c, holds) == [c EXCEPT !.open = TRUE, !.read = "connect", !.holds = holds]

\* this side has passed the handshake
SideValidated(side) ==
    IF side = "server" THEN con.server.nValidate > 0 ELSE con.client.handshakeDone

\* the peer of this side has closed its socket
PeerClosed(side) == con[Peer(side)].up /\ ~con[Peer(side)].open

\* the bytes that have arrived for the read of this side
Arrived(side) == con[Peer(side)].out

\* the application calls client::Connect
ConConnect(holds) ==
    /\ ConStep
    /\ ~con.client.up
    /\ con' = [con EXCEPT !.client = ConnectToServer(Connection("client", 0), holds)]

\* the network connects the client's socket to the listening server
ConEstablish ==
    /\ ConStep
    /\ con.client.read = "connect" /\ con.client.open /\ ~con.client.established
    /\ con' = [con EXCEPT !.client = Connected(@)]

\* the completion handler of ConnectToServer's async_connect.  A connect that
\* has failed leaves the socket open and not connected: the handler does not
\* close it
ConConnected(ec) ==
    /\ ConStep
    /\ con.client.read = "connect"
    /\ IF ec THEN ~con.client.established ELSE con.client.open /\ con.client.established
    /\ LET c == [con.client EXCEPT !.read = "none"]
       IN con' = [con EXCEPT
                    !.client = IF ec THEN c
                               ELSE ReadValidation([c EXCEPT !.m_id = SERVER_USER_ID]),
                    !.error = @ \/ (ec /\ con.client.open)]

\* the completion handler of the server's async_accept for this client
ConAccept(now, accept, stale) ==
    /\ ConStep
    /\ ~con.server.up /\ con.client.established
    /\ LET newconn == [Connection("server", now) EXCEPT !.open = TRUE, !.established = TRUE]
       IN con' = [con EXCEPT
                    !.server = IF accept THEN ConnectToClient(newconn, FirstClientId, stale)
                               ELSE Close(newconn),
                    !.denied = ~accept]

\* the application calls Send on one side: client::Send, or the server's
\* MessageClient for this client
ConSend(side, msg) ==
    /\ ConStep
    /\ con.nSends < MaxConSends
    /\ con[side].up /\ con[side].open
    /\ con' = [con EXCEPT ![side].posted = Append(@, msg),
                          ![side].sendLog = Append(@, msg),
                          ![side].earlySend = @ \/ ~SideValidated(side),
                          !.nSends = @ + 1]

\* the executor of one side runs the oldest handler Send has posted
ConRunPosted(side) ==
    /\ ConStep
    /\ con[side].posted # <<>>
    /\ con' = [con EXCEPT ![side] = SendPosted([@ EXCEPT !.posted = Tail(@)],
                                               con[side].posted[1])]

\* the oldest write of one side completes and its handler runs; a write the
\* socket did not take completes with an error
ConWriteDone(side, ec) ==
    /\ ConStep
    /\ con[side].writes # <<>>
    /\ ~con[side].writes[1].taken => ec
    /\ LET w == con[side].writes[1]
           c == [con[side] EXCEPT !.writes = Tail(@)]
       IN con' = [con EXCEPT
                    ![side] = CASE w.kind = "validation" -> WriteValidationDone(side, c, ec)
                                [] w.kind = "header" -> WriteHeaderDone(c, ec)
                                [] w.kind = "body" -> WriteBodyDone(c, ec),
                    !.error = @ \/ (ec /\ w.taken)]

\* the read of one side completes and its handler runs: with its bytes when they
\* have arrived, with an error when the own socket was closed or the stream
\* ended before them
ConReadDone(side, ec, stale) ==
    /\ ConStep
    /\ con[side].read \in {"validation", "header", "body"}
    /\ LET c == con[side]
           have == c.open /\ Len(Arrived(side)) >= c.need
           ended == ~c.open \/ (PeerClosed(side) /\ ~have)
       IN /\ IF ec THEN TRUE ELSE have
          /\ ended => ec
          /\ LET bytes == IF have THEN SubSeq(Arrived(side), 1, c.need) ELSE <<>>
                 rest == IF have /\ ~ec
                           THEN SubSeq(Arrived(side), c.need + 1, Len(Arrived(side)))
                           ELSE Arrived(side)
                 idle == [c EXCEPT !.read = "none", !.need = 0]
                 done == CASE c.read = "validation" ->
                                  ReadValidationDone(side, idle, ec, bytes, stale)
                           [] c.read = "header" -> ReadHeaderDone(idle, ec, bytes)
                           [] c.read = "body" -> ReadBodyDone(idle, ec, bytes)
             IN con' = [con EXCEPT ![side] = done,
                                   ![Peer(side)].out = rest,
                                   !.error = @ \/ (ec /\ ~ended)]

ConNext ==
    \/ \E holds \in BOOLEAN : ConConnect(holds)
    \/ ConEstablish
    \/ \E ec \in BOOLEAN : ConConnected(ec)
    \/ \E now \in 0..MaxConTime, accept \in BOOLEAN, stale \in BOOLEAN : ConAccept(now, accept, stale)
    \/ \E side \in Sides, msg \in Msgs : ConSend(side, msg)
    \/ \E side \in Sides : ConRunPosted(side)
    \/ \E side \in Sides, ec \in BOOLEAN : ConWriteDone(side, ec)
    \/ \E side \in Sides, ec \in BOOLEAN, stale \in BOOLEAN : ConReadDone(side, ec, stale)

(***************************************************************************)
(* Start and Stop of the two servers                                       *)
(*                                                                         *)
(* The application thread calls Start and Stop; the thread Start creates   *)
(* runs m_asioContext.run(). The io_context is its stopped flag, the       *)
(* handlers posted to it in posting order, and the accept (tcp) or receive *)
(* (udp) operations armed on it. stop() sets the flag and makes run()      *)
(* return; handlers still queued stay queued, and reset() only clears the  *)
(* flag.                                                                   *)
(***************************************************************************)
LifeVariants == {"stream-lifecycle", "datagram-lifecycle"}
LifeIds == FirstClientId..(FirstClientId + MaxLifeSessions - 1)

LifeInit ==
    life = [joinable |-> FALSE,        \* m_threadContext.joinable()
            worker |-> "none",         \* the thread of m_threadContext: none, running, exited
            stopped |-> FALSE,         \* m_asioContext.stopped()
            queue |-> <<>>,            \* handlers posted to m_asioContext, oldest first
            armed |-> 0,               \* async_accept / async_receive_from operations pending
            m_activeConnections |-> <<>>,   \* id -> m_socket.is_open() of the connection
            pc |-> "idle",             \* where the application thread is
            terminated |-> FALSE,      \* std::terminate was called
            \* what the application saw, for the claims
            calls |-> <<>>,            \* the calls that have returned, in order
            returned |-> TRUE,         \* what the last Start returned
            atStop |-> {}]             \* ids with an open socket when the last Stop began

LifeStep ==
    /\ variant \in LifeVariants
    /\ ~life.terminated
    /\ UNCHANGED <<variant, hostEndian, dqVars, udpVars, tcpVars, conVars, updVars, dgcVars, tclVars, sqVars, msgVars, thrVars>>

AlreadyRunning_Never(s) == FALSE

\* server::Start: the test of its first line
AlreadyRunning(s) == s.joinable /\ ~s.stopped

\* server::Start
Start(s) ==
    IF AlreadyRunning(s) THEN [s EXCEPT !.returned = FALSE]
    ELSE LET waiting == [s EXCEPT !.armed = @ + 1]
         IN IF waiting.joinable
              \* operator= on a std::thread that is joinable calls std::terminate
              THEN [waiting EXCEPT !.terminated = TRUE]
              ELSE [waiting EXCEPT !.joinable = TRUE, !.worker = "running", !.returned = TRUE]

\* server::Stop of the stream server, the loop over m_activeConnections met in the
\* order `ids`: connection::Disconnect posts the close of a socket that is open
RECURSIVE DisconnectLoop(_, _, _)
DisconnectLoop(s, ids, i) ==
    IF i > Len(ids) THEN s
    ELSE DisconnectLoop(IF s.m_activeConnections[ids[i]]
                          THEN [s EXCEPT !.queue = Append(@, <<"close", ids[i]>>)]
                          ELSE s,
                        ids, i + 1)

LiveSessions(s) == {id \in DOMAIN s.m_activeConnections : s.m_activeConnections[id]}

\* the application calls Start
LifeStart ==
    /\ LifeStep
    /\ life.pc = "idle"
    /\ Len(life.calls) < MaxLifeCalls
    /\ life' = [Start(life) EXCEPT !.calls = Append(@, "Start")]

\* the application calls Stop: the stop handler is posted
LifeStopPost ==
    /\ LifeStep
    /\ life.pc = "idle"
    /\ Len(life.calls) < MaxLifeCalls
    /\ life' = [life EXCEPT !.queue = Append(@, <<"stop">>),
                            !.pc = IF variant = "stream-lifecycle" THEN "disconnect"
                                                                   ELSE "join",
                            !.atStop = LiveSessions(life)]

\* Stop: the sockets of the sessions are asked to close (stream server only)
LifeStopDisconnect ==
    /\ LifeStep
    /\ life.pc = "disconnect"
    /\ \E ids \in Orders(DOMAIN life.m_activeConnections) :
         life' = [DisconnectLoop(life, ids, 1) EXCEPT !.pc = "join"]

\* Stop: join of the thread if it is joinable, then m_asioContext.reset(), return
LifeStopJoin ==
    /\ LifeStep
    /\ life.pc = "join"
    /\ life.joinable => life.worker = "exited"
    /\ life' = [life EXCEPT !.joinable = FALSE,
                            !.worker = "none",
                            !.stopped = FALSE,
                            !.pc = "idle",
                            !.calls = Append(@, "Stop")]

\* io_context::run takes the oldest posted handler and runs it
LifeRunHandler ==
    /\ LifeStep
    /\ life.worker = "running"
    /\ ~life.stopped
    /\ life.queue # <<>>
    /\ LET h == Head(life.queue)
           taken == [life EXCEPT !.queue = Tail(@)]
       IN life' = IF h[1] = "stop" THEN [taken EXCEPT !.stopped = TRUE]
                  ELSE [taken EXCEPT !.m_activeConnections[h[2]] = FALSE]

\* io_context::run returns once the context is stopped
LifeRunReturns ==
    /\ LifeStep
    /\ life.worker = "running"
    /\ life.stopped
    /\ life' = [life EXCEPT !.worker = "exited"]

\* an armed operation completes: the handler registers a session (stream server)
\* or handles a datagram (datagram server), and arms the next operation
LifeOperationDone ==
    /\ LifeStep
    /\ life.worker = "running"
    /\ ~life.stopped
    /\ life.armed > 0
    /\ IF variant = "stream-lifecycle"
         THEN LET newId == FirstClientId + Cardinality(DOMAIN life.m_activeConnections)
              IN /\ newId \in LifeIds
                 /\ life' = [life EXCEPT !.m_activeConnections = (newId :> TRUE) @@ @]
         ELSE life' = life

\* a handler of a session meets a transport error and closes the socket
LifeSocketCloses ==
    /\ LifeStep
    /\ life.worker = "running"
    /\ ~life.stopped
    /\ \E id \in LiveSessions(life) :
         life' = [life EXCEPT !.m_activeConnections[id] = FALSE]

LifeNext ==
    \/ LifeStart
    \/ LifeStopPost
    \/ LifeStopDisconnect
    \/ LifeStopJoin
    \/ LifeRunHandler
    \/ LifeRunReturns
    \/ LifeOperationDone
    \/ LifeSocketCloses

(***************************************************************************)
(* server::Update against the thread that fills m_qMessagesIn              *)
(*                                                                         *)
(* Update is the same in both servers. The application thread calls it;    *)
(* the thread running the context pushes the tagged messages the handlers  *)
(* assemble. The deque operations are taken at the grain of ts_deque:      *)
(* push_back holds m_mutexDeque from the emplace to the end of notify_one, *)
(* wait() tests empty() and then blocks on m_cvBlocking under              *)
(* m_mutexBlocking alone.                                                  *)
(***************************************************************************)
UpdIds == FirstClientId..(FirstClientId + 1)
UpdMax == 0..MaxUpdMessages

UpdInit ==
    upd = [m_qMessagesIn |-> <<>>,     \* the deque of tagged messages
           pushing |-> FALSE,          \* push_back holds m_mutexDeque, before notify_one
           pc |-> "idle",              \* where the application thread is in Update
           maxMessages |-> 0,          \* arguments of the call of Update in progress
           wait |-> FALSE,
           messageCount |-> 0,
           \* what happened, for the claims
           pushed |-> <<>>,            \* every tagged message pushed, in order
           dispatched |-> <<>>,        \* the arguments of every OnMessage, in order
           nCalls |-> 0,               \* calls of Update
           emptyAtLoop |-> FALSE]      \* a call with wait found the deque empty at its
                                       \* first loop test

UpdStep ==
    /\ variant = "update"
    /\ UNCHANGED <<variant, hostEndian, dqVars, udpVars, tcpVars, conVars, lifeVars, dgcVars, tclVars, sqVars, msgVars, thrVars>>

\* the application calls Update(maxMessages, wait)
UpdCall(maxMessages, wait) ==
    /\ UpdStep
    /\ upd.pc = "idle"
    /\ upd.nCalls < MaxUpdCalls
    /\ upd' = [upd EXCEPT !.pc = IF wait THEN "wait" ELSE "first",
                          !.maxMessages = maxMessages,
                          !.wait = wait,
                          !.messageCount = 0,
                          !.nCalls = @ + 1]

\* ts_deque::wait: the loop test empty(), under m_mutexDeque
UpdWaitTest ==
    /\ UpdStep
    /\ upd.pc = "wait"
    /\ ~upd.pushing
    /\ upd' = [upd EXCEPT !.pc = IF upd.m_qMessagesIn = <<>> THEN "lock" ELSE "first"]

\* ts_deque::wait: m_mutexBlocking is taken and m_cvBlocking.wait(ul) blocks
UpdWaitBlock ==
    /\ UpdStep
    /\ upd.pc = "lock"
    /\ upd' = [upd EXCEPT !.pc = "blocked"]

\* m_cvBlocking.wait returns without a notification
UpdSpuriousWakeUp ==
    /\ UpdStep
    /\ upd.pc = "blocked"
    /\ upd' = [upd EXCEPT !.pc = "wait"]

\* Update: the test of the while loop
UpdLoopTest ==
    /\ UpdStep
    /\ upd.pc \in {"first", "loop"}
    /\ ~upd.pushing
    /\ upd' = [upd EXCEPT !.pc = IF upd.messageCount < upd.maxMessages
                                    /\ upd.m_qMessagesIn # <<>>
                                 THEN "pop" ELSE "idle",
                          !.emptyAtLoop = @ \/ (/\ upd.pc = "first"
                                                /\ upd.wait
                                                /\ upd.m_qMessagesIn = <<>>)]

\* Update: pop_front, OnMessage with the tag and the message popped, ++messageCount
UpdPopFront ==
    /\ UpdStep
    /\ upd.pc = "pop"
    /\ ~upd.pushing
    /\ upd' = [upd EXCEPT !.pc = "loop",
                          !.m_qMessagesIn = Tail(@),
                          !.dispatched = Append(@, Head(upd.m_qMessagesIn)),
                          !.messageCount = @ + 1]

\* a handler pushes a tagged message: push_back locks m_mutexDeque and emplaces
UpdPushBack(taggedMsg) ==
    /\ UpdStep
    /\ ~upd.pushing
    /\ Len(upd.pushed) < MaxUpdMessages
    /\ upd' = [upd EXCEPT !.pushing = TRUE,
                          !.m_qMessagesIn = Append(@, taggedMsg),
                          !.pushed = Append(@, taggedMsg)]

\* push_back: m_mutexBlocking is taken, notify_one wakes a blocked waiter, and both
\* mutexes are released
UpdNotify ==
    /\ UpdStep
    /\ upd.pushing
    /\ upd' = [upd EXCEPT !.pushing = FALSE,
                          !.pc = IF @ = "blocked" THEN "wait" ELSE @]

UpdNext ==
    \/ \E maxMessages \in UpdMax, wait \in BOOLEAN : UpdCall(maxMessages, wait)
    \/ UpdWaitTest
    \/ UpdWaitBlock
    \/ UpdSpuriousWakeUp
    \/ UpdLoopTest
    \/ UpdPopFront
    \/ \E id \in UpdIds, msg \in Msgs : UpdPushBack([m_remote |-> id, m_msg |-> msg])
    \/ UpdNotify

(***************************************************************************)
(* udp::client, with the server it talks to                                *)
(*                                                                         *)
(* The application thread calls Connect, Send and Disconnect; the thread   *)
(* Connect creates runs m_asioContext.run(). The server is the udp::server *)
(* above, at one endpoint, with its clock held at 0 so that its time-out   *)
(* sweep removes nobody; datagrams travel in order and are not lost.       *)
(***************************************************************************)
ClientEndpoint == 1
ClientId == FirstClientId
ServerNow == 0

\* a message one byte larger than MAX_MESSAGE_SIZE_IN_BYTES
Oversize == Message(3, [i \in 1..(MAX_MESSAGE_SIZE_IN_BYTES - HeaderSize + 1) |-> 0])

NewClient(budget) ==
    [budget |-> budget,           \* the bounds of this run
     build |-> "any",             \* what is known of the build: any, or NDEBUG once an
                                  \* assert(false) was passed without effect
     m_socket |-> FALSE,          \* m_socket.is_open()
     joinable |-> FALSE,          \* m_threadContext.joinable()
     worker |-> "none",           \* the thread of m_threadContext: none, running, exited
     stopped |-> FALSE,           \* m_asioContext.stopped()
     queue |-> <<>>,              \* handlers posted to m_asioContext, oldest first
     m_qMessagesOut |-> <<>>,
     m_qMessagesIn |-> <<>>,
     m_lastMessageTime |-> 0,
     sends |-> <<>>,              \* async_send operations in flight, oldest first
     receive |-> "none",          \* the async_receive armed: none, validation, messages
     aborted |-> FALSE,           \* abort() or std::terminate() was called
     pc |-> "idle",               \* where the application thread is
     now |-> 0,                   \* std::chrono::steady_clock, in ticks
     \* the network and the server
     toServer |-> <<>>,           \* datagrams on their way to the server
     toClient |-> <<>>,           \* datagrams on their way to the client
     server |-> [NewServer EXCEPT !.running = TRUE],
     serverPosted |-> <<>>,       \* handlers posted by server::Send
     \* what happened, for the claims
     connectCalled |-> FALSE,     \* the application has called Connect
     lastCall |-> "none",         \* the call of the application that returned last
     nDisconnect |-> 0,           \* calls of Disconnect that returned
     handshakeDone |-> FALSE,     \* the answer to the challenge has been sent
     error |-> FALSE,             \* an async_send completed with an error
     sendLog |-> <<>>,            \* the messages Send accepted, in call order
     early |-> FALSE,             \* Send was called before the handshake was done
     serverSendLog |-> <<>>,      \* the messages server::Send accepted
     outConnected |-> <<>>,       \* for each entry of m_qMessagesOut: IsConnected()
                                  \* held when Send was called
     unconnected |-> "none",      \* how far a message went that was given to Send
                                  \* while IsConnected() was false: posted, queued, written
     oversize |-> [client |-> FALSE,       \* client::Send was given Oversize
                   sendsBefore |-> 0,      \* after so many messages of valid size
                   server |-> FALSE,       \* server::Send was given Oversize
                   serverSendsBefore |-> 0],
     afterFirst |-> <<>>]         \* the client when the first of two consecutive
                                  \* Disconnect calls returned

DgcInit ==
    \E budget \in (IF variant = "datagram-client" THEN DgcBudgets
                   ELSE {CHOOSE b \in DgcBudgets : TRUE}) :
        dgc = NewClient(budget)

DgcStep ==
    /\ variant = "datagram-client"
    /\ ~dgc.aborted
    /\ UNCHANGED <<variant, hostEndian, dqVars, udpVars, tcpVars, conVars, lifeVars, updVars, tclVars, sqVars, msgVars, thrVars>>

\* client::IsConnected
ClientIsConnected(c) == ~(ElapsedMs(c.now, c.m_lastMessageTime) > ClientTimeoutMs)

\* client::SendMessages
ClientSendMessages(c) ==
    IF c.m_qMessagesOut = <<>> THEN c
    ELSE LET msg == c.m_qMessagesOut[1]
             m_tempBufferOut == HeaderBytes(msg.m_header, hostEndian) \o msg.m_body
         IN [c EXCEPT !.sends = Append(@, [kind |-> "message", data |-> m_tempBufferOut]),
                      !.unconnected = IF c.outConnected[1] THEN @ ELSE "written"]

\* client::Send: the handler it posts
ClientSendPosted_NoSwap(c, msg, connected) ==
    LET writing == c.m_qMessagesOut # <<>>
        pushed == [c EXCEPT !.m_qMessagesOut = Append(@, msg),
                            !.outConnected = Append(@, connected),
                            !.unconnected = IF connected \/ @ = "written" THEN @
                                            ELSE "queued"]
    IN IF ~writing THEN ClientSendMessages(pushed) ELSE pushed

ClientSendPosted(c, msg, connected) ==
    LET writing == c.m_qMessagesOut # <<>>
        swapped == [msg EXCEPT !.m_header.m_size = NativeToBig(@, hostEndian)]
        pushed == [c EXCEPT !.m_qMessagesOut = Append(@, swapped),
                            !.outConnected = Append(@, connected),
                            !.unconnected = IF connected \/ @ = "written" THEN @
                                            ELSE "queued"]
    IN IF ~writing THEN ClientSendMessages(pushed) ELSE pushed

\* assert(false): abort() unless the build defines NDEBUG
AssertFalse(c, NDEBUG) ==
    IF NDEBUG THEN [c EXCEPT !.build = "NDEBUG"] ELSE [c EXCEPT !.aborted = TRUE]

\* the builds a run can still be of
Builds(c) == IF c.build = "any" THEN BOOLEAN ELSE {TRUE}

\* client::Send
ClientSend_HeaderAlone(c, msg, NDEBUG) ==
    IF MsgSize(msg) > MAX_MESSAGE_SIZE_IN_BYTES
      THEN [c EXCEPT !.queue = Append(@, <<"send", MovedFrom(msg), ClientIsConnected(c)>>)]
      ELSE [c EXCEPT !.queue = Append(@, <<"send", msg, ClientIsConnected(c)>>)]

ClientSend(c, msg, NDEBUG) ==
    IF MsgSize(msg) > MAX_MESSAGE_SIZE_IN_BYTES
      THEN AssertFalse(c, NDEBUG)
      ELSE [c EXCEPT !.queue = Append(@, <<"send", msg, ClientIsConnected(c)>>)]

\* client::ConnectToServer
ClientConnectToServer(c) ==
    LET m_magicNumOut == NativeToBig(CONNECTION_REQUEST_MAGIC_NUMBER, hostEndian)
    IN [c EXCEPT !.m_socket = TRUE,
                 !.sends = Append(@, [kind |-> "magic",
                                      data |-> Mem(m_magicNumOut, hostEndian)])]

\* client::HandleValidation: the handler of async_receive, without error
ClientHandleValidation(c, data) ==
    LET m_tempHandshakeIn == BigToNative(Val(data, hostEndian), hostEndian)
        m_tempHandshakeOut == NativeToBig(ScrambleOf(m_tempHandshakeIn), hostEndian)
    IN [c EXCEPT !.receive = "none",
                 !.sends = Append(@, [kind |-> "answer",
                                      data |-> Mem(m_tempHandshakeOut, hostEndian)])]

\* client::ProcessMessage
ClientProcessMessage(c, m_tempBufferIn) ==
    IF Len(m_tempBufferIn) < HeaderSize THEN c
    ELSE LET raw == HeaderOf(SubSeq(m_tempBufferIn, 1, HeaderSize), hostEndian)
             size == BigToNative(raw.m_size, hostEndian)
             msg == [m_header |-> [m_type |-> raw.m_type, m_size |-> size],
                     m_body |-> SubSeq(m_tempBufferIn, HeaderSize + 1, Len(m_tempBufferIn))]
         IN IF U32(Len(m_tempBufferIn) - HeaderSize) # size THEN c
            ELSE [c EXCEPT !.m_lastMessageTime = c.now,
                           !.m_qMessagesIn = Append(@, [m_remote |-> SERVER_USER_ID,
                                                        m_msg |-> msg])]

\* the thread runs handlers: it was started and the context is not stopped
ClientRuns(c) == c.worker = "running" /\ ~c.stopped

\* the application calls Connect
DgcConnect ==
    /\ DgcStep
    /\ dgc.pc = "idle"
    /\ ~dgc.connectCalled
    /\ dgc' = [ClientConnectToServer(dgc) EXCEPT !.joinable = TRUE,
                                                 !.worker = "running",
                                                 !.connectCalled = TRUE,
                                                 !.lastCall = "Connect"]

\* the application calls Send with a message of valid size
DgcSend(msg) ==
    /\ DgcStep
    /\ dgc.pc = "idle"
    /\ Len(dgc.sendLog) < dgc.budget.sends
    /\ dgc' = [ClientSend(dgc, msg, TRUE) EXCEPT
                  !.lastCall = "Send",
                  !.sendLog = Append(@, msg),
                  !.early = @ \/ ~dgc.handshakeDone,
                  !.unconnected = IF /\ ~ClientIsConnected(dgc)
                                     /\ ClientSend(dgc, msg, TRUE).queue # dgc.queue
                                     /\ @ = "none"
                                    THEN "posted" ELSE @]

\* the application calls Send with a message that is too large
DgcSendOversize ==
    /\ DgcStep
    /\ dgc.pc = "idle"
    /\ dgc.budget.oversize
    /\ ~dgc.oversize.client
    /\ \E NDEBUG \in Builds(dgc) :
         dgc' = [ClientSend(dgc, Oversize, NDEBUG) EXCEPT !.lastCall = "Send",
                                                          !.oversize.client = TRUE,
                                                          !.oversize.sendsBefore =
                                                              Len(dgc.sendLog)]

\* the application calls Disconnect: the stop handler is posted, and the close
\* handler if the socket is open
DgcDisconnectPost ==
    /\ DgcStep
    /\ dgc.pc = "idle"
    /\ dgc.nDisconnect < dgc.budget.disconnects
    /\ dgc' = [dgc EXCEPT !.queue = IF dgc.m_socket THEN @ \o <<<<"stop">>, <<"close">>>>
                                                     ELSE Append(@, <<"stop">>),
                          !.pc = "join"]

\* Disconnect: join of the thread if it is joinable, and the return
DgcDisconnectJoin ==
    /\ DgcStep
    /\ dgc.pc = "join"
    /\ dgc.joinable => dgc.worker = "exited"
    /\ LET joined == [dgc EXCEPT !.joinable = FALSE, !.worker = "none", !.pc = "idle",
                                 !.lastCall = "Disconnect", !.nDisconnect = @ + 1]
       IN dgc' = [joined EXCEPT !.afterFirst =
                     IF dgc.lastCall = "Disconnect"
                       THEN @ ELSE <<[joined EXCEPT !.afterFirst = <<>>]>>]

\* m_asioContext.run() takes the oldest posted handler and runs it
DgcRunHandler ==
    /\ DgcStep
    /\ ClientRuns(dgc)
    /\ dgc.queue # <<>>
    /\ LET h == Head(dgc.queue)
           taken == [dgc EXCEPT !.queue = Tail(@)]
       IN dgc' = CASE h[1] = "stop" -> [taken EXCEPT !.stopped = TRUE]
                   [] h[1] = "close" -> [taken EXCEPT !.m_socket = FALSE, !.receive = "none"]
                   [] h[1] = "send" -> ClientSendPosted(taken, h[2], h[3])

\* m_asioContext.run() returns: the context is stopped or has run out of work
DgcRunReturns ==
    /\ DgcStep
    /\ dgc.worker = "running"
    /\ dgc.stopped \/ (dgc.queue = <<>> /\ dgc.sends = <<>> /\ dgc.receive = "none")
    /\ dgc' = [dgc EXCEPT !.worker = "exited", !.stopped = TRUE]

\* the completion handler of an async_send of the client
DgcSendDone(ec) ==
    /\ DgcStep
    /\ ClientRuns(dgc)
    /\ dgc.sends # <<>>
    /\ ec = ~dgc.m_socket
    /\ LET op == Head(dgc.sends)
           done == [dgc EXCEPT !.sends = Tail(@)]
           left == [done EXCEPT !.toServer = Append(@, op.data)]
       IN dgc' = IF ec THEN [done EXCEPT !.error = TRUE]
                  ELSE CASE op.kind = "magic" -> [left EXCEPT !.receive = "validation"]
                         [] op.kind = "answer" -> [left EXCEPT !.receive = "messages",
                                                               !.handshakeDone = TRUE]
                         [] op.kind = "message" ->
                              ClientSendMessages([left EXCEPT !.m_qMessagesOut = Tail(@),
                                                              !.outConnected = Tail(@)])

\* the completion handler of the async_receive armed, for the next datagram
DgcReceiveDone ==
    /\ DgcStep
    /\ ClientRuns(dgc)
    /\ dgc.m_socket
    /\ dgc.receive # "none"
    /\ dgc.toClient # <<>>
    /\ LET data == Head(dgc.toClient)
           got == [dgc EXCEPT !.toClient = Tail(@)]
       IN dgc' = IF dgc.receive = "validation"
                   THEN ClientHandleValidation(got, data)
                   ELSE ClientProcessMessage(got, data)

\* the clock advances
DgcTick ==
    /\ DgcStep
    /\ dgc.now < dgc.budget.ticks
    /\ dgc' = [dgc EXCEPT !.now = @ + 1]

\* the datagrams the server handed to its socket in a handler that took it from
\* `before` to `after`
ServerWrote(before, after) ==
    (IF after.challenge[ClientEndpoint] # before.challenge[ClientEndpoint]
       THEN <<after.challenge[ClientEndpoint]>> ELSE <<>>)
    \o [i \in 1..(Len(after.sent) - Len(before.sent)) |-> after.sent[Len(before.sent) + i].data]

\* the server receives the next datagram of the client
DgcServerReceive ==
    /\ DgcStep
    /\ dgc.toServer # <<>>
    /\ LET s == [dgc.server EXCEPT !.trace = <<>>]
           handled == WaitForMessages(s, ClientEndpoint, Head(dgc.toServer), ServerNow,
                                      <<>>, TRUE)
       IN dgc' = [dgc EXCEPT !.toServer = Tail(@),
                             !.server = handled,
                             !.toClient = @ \o ServerWrote(s, handled)]

\* the validated client is in the registry of the server
ServerKnowsClient(c) ==
    /\ ClientId \in DOMAIN c.server.m_userIdToUser
    /\ c.server.m_userIdToUser[ClientId].m_validated

\* the application of the server calls MessageClient for the validated client
DgcServerSend(msg) ==
    /\ DgcStep
    /\ ServerKnowsClient(dgc)
    /\ Len(dgc.serverSendLog) < dgc.budget.serverSends
    /\ dgc' = [dgc EXCEPT !.serverPosted = Send(@, ClientId, msg)[1],
                          !.serverSendLog = Append(@, msg)]

\* the application of the server calls MessageClient with a message that is too
\* large: server::Send returns after its assert(false)
DgcServerSendOversize ==
    /\ DgcStep
    /\ ServerKnowsClient(dgc)
    /\ dgc.budget.oversize
    /\ ~dgc.oversize.server
    /\ \E NDEBUG \in Builds(dgc) :
         dgc' = [AssertFalse(dgc, NDEBUG) EXCEPT
                    !.serverPosted = Send(@, ClientId, Oversize)[1],
                    !.oversize.server = TRUE,
                    !.oversize.serverSendsBefore = Len(dgc.serverSendLog)]

\* the handler server::Send posted runs
DgcServerRunPosted ==
    /\ DgcStep
    /\ dgc.serverPosted # <<>>
    /\ LET s == [dgc.server EXCEPT !.trace = <<>>]
           msg == dgc.serverPosted[1].msg
           writing == s.m_qMessagesOut # <<>>
           swapped == [msg EXCEPT !.m_header.m_size = NativeToBig(@, hostEndian)]
           pushed == [s EXCEPT !.m_qMessagesOut =
                                   Append(@, [m_remote |-> dgc.serverPosted[1].userId,
                                              m_msg |-> swapped])]
           handled == IF ~writing THEN SendMessages(pushed, ServerNow, <<>>) ELSE pushed
       IN dgc' = [dgc EXCEPT !.serverPosted = Tail(@),
                             !.server = handled,
                             !.toClient = @ \o ServerWrote(s, handled)]

\* the completion handler of the server's async_send_to, without error
DgcServerSendDone ==
    /\ DgcStep
    /\ dgc.server.sending
    /\ LET s == [dgc.server EXCEPT !.trace = <<>>, !.sending = FALSE,
                                   !.m_qMessagesOut = Tail(@)]
           handled == SendMessages(s, ServerNow, <<>>)
       IN dgc' = [dgc EXCEPT !.server = handled,
                             !.toClient = @ \o ServerWrote(s, handled)]

DgcNext ==
    \/ DgcConnect
    \/ \E msg \in Msgs : DgcSend(msg)
    \/ DgcSendOversize
    \/ DgcDisconnectPost
    \/ DgcDisconnectJoin
    \/ DgcRunHandler
    \/ DgcRunReturns
    \/ \E ec \in BOOLEAN : DgcSendDone(ec)
    \/ DgcReceiveDone
    \/ DgcTick
    \/ DgcServerReceive
    \/ \E msg \in Msgs : DgcServerSend(msg)
    \/ DgcServerSendOversize
    \/ DgcServerRunPosted
    \/ DgcServerSendDone

(***************************************************************************)
(* tcp::client                                                             *)
(*                                                                         *)
(* The client owns the connection object of the session above; here the    *)
(* connection is its socket and its queue of outgoing messages, and what   *)
(* is followed is the calls of the application against the thread that     *)
(* runs m_asioContext.                                                     *)
(***************************************************************************)
TclInit ==
    tcl = [m_connection |-> FALSE,     \* m_connection holds a connection
           m_socket |-> FALSE,         \* m_socket.is_open() of that connection
           joinable |-> FALSE,         \* m_threadContext.joinable()
           worker |-> "none",          \* the thread of m_threadContext: none, running, exited
           stopped |-> FALSE,          \* m_asioContext.stopped()
           queue |-> <<>>,             \* handlers posted to m_asioContext, oldest first
           m_qMessagesOut |-> <<>>,    \* of the connection
           pc |-> "idle",              \* where the application thread is
           \* what happened, for the claims
           connectCalled |-> FALSE,    \* the application has called Connect
           lastCall |-> "none",        \* the call of the application that returned last
           nSend |-> 0,                \* calls of Send
           nDisconnect |-> 0,          \* calls of Disconnect that returned
           unconnected |-> "none",     \* how far a message went that was given to Send
                                       \* while IsConnected() was false
           afterFirst |-> <<>>]        \* the client when the first of two consecutive
                                       \* Disconnect calls returned

TclStep ==
    /\ variant = "stream-client"
    /\ UNCHANGED <<variant, hostEndian, dqVars, udpVars, tcpVars, conVars, lifeVars, updVars,
                   dgcVars, sqVars, msgVars, thrVars>>

\* client::IsConnected
TclIsConnected(c) == c.m_connection /\ c.m_socket

\* client::Send
TclSend(c, msg) ==
    IF TclIsConnected(c) THEN [c EXCEPT !.queue = Append(@, <<"send", msg>>)] ELSE c

\* the thread runs handlers: it was started and the context is not stopped
TclRuns(c) == c.worker = "running" /\ ~c.stopped

\* the application calls Connect
TclCallConnect ==
    /\ TclStep
    /\ tcl.pc = "idle"
    /\ ~tcl.connectCalled
    /\ tcl' = [tcl EXCEPT !.m_connection = TRUE,
                          !.m_socket = TRUE,
                          !.joinable = TRUE,
                          !.worker = "running",
                          !.connectCalled = TRUE,
                          !.lastCall = "Connect"]

\* the application calls Send
TclCallSend(msg) ==
    /\ TclStep
    /\ tcl.pc = "idle"
    /\ tcl.nSend < MaxTclSends
    /\ tcl' = [TclSend(tcl, msg) EXCEPT
                  !.lastCall = "Send",
                  !.nSend = @ + 1,
                  !.unconnected = IF ~TclIsConnected(tcl)
                                     /\ TclSend(tcl, msg).queue # tcl.queue
                                    THEN "posted" ELSE @]

\* the application calls Disconnect: the close of the socket is posted if the
\* client is connected, and the context is stopped
TclDisconnectStop ==
    /\ TclStep
    /\ tcl.pc = "idle"
    /\ tcl.nDisconnect < MaxTclDisconnects
    /\ tcl' = [tcl EXCEPT !.queue = IF TclIsConnected(tcl) THEN Append(@, <<"close">>) ELSE @,
                          !.stopped = TRUE,
                          !.pc = "join"]

\* client::Disconnect from the join on: the thread is joined if it is joinable,
\* m_connection is released
TclJoinAndRelease_KeepsConnection(c) ==
    [c EXCEPT !.joinable = FALSE, !.worker = "none"]

TclJoinAndRelease(c) ==
    [c EXCEPT !.joinable = FALSE, !.worker = "none", !.m_connection = FALSE]

\* Disconnect: join of the thread if it is joinable, m_connection.release(), return
TclDisconnectJoin ==
    /\ TclStep
    /\ tcl.pc = "join"
    /\ tcl.joinable => tcl.worker = "exited"
    /\ LET joined == [TclJoinAndRelease(tcl) EXCEPT
                         !.pc = "idle", !.lastCall = "Disconnect", !.nDisconnect = @ + 1]
       IN tcl' = [joined EXCEPT !.afterFirst =
                     IF tcl.lastCall = "Disconnect"
                       THEN @ ELSE <<[joined EXCEPT !.afterFirst = <<>>]>>]

\* m_asioContext.run() takes the oldest posted handler and runs it
TclRunHandler ==
    /\ TclStep
    /\ TclRuns(tcl)
    /\ tcl.queue # <<>>
    /\ LET h == Head(tcl.queue)
           taken == [tcl EXCEPT !.queue = Tail(@)]
       IN tcl' = IF h[1] = "close" THEN [taken EXCEPT !.m_socket = FALSE]
                  ELSE [taken EXCEPT !.m_qMessagesOut = Append(@, h[2])]

\* a message of m_qMessagesOut has been written to the socket
TclWriteDone ==
    /\ TclStep
    /\ TclRuns(tcl)
    /\ tcl.m_socket
    /\ tcl.m_qMessagesOut # <<>>
    /\ tcl' = [tcl EXCEPT !.m_qMessagesOut = Tail(@)]

\* a handler of the connection meets a transport error and closes the socket
TclSocketFails ==
    /\ TclStep
    /\ TclRuns(tcl)
    /\ tcl.m_socket
    /\ tcl' = [tcl EXCEPT !.m_socket = FALSE]

\* m_asioContext.run() returns: the context is stopped or has run out of work
TclRunReturns ==
    /\ TclStep
    /\ tcl.worker = "running"
    /\ tcl.stopped \/ (tcl.queue = <<>> /\ ~tcl.m_socket)
    /\ tcl' = [tcl EXCEPT !.worker = "exited", !.stopped = TRUE]

TclNext ==
    \/ TclCallConnect
    \/ \E msg \in Msgs : TclCallSend(msg)
    \/ TclDisconnectStop
    \/ TclDisconnectJoin
    \/ TclRunHandler
    \/ TclWriteDone
    \/ TclSocketFails
    \/ TclRunReturns


(***************************************************************************)
(* ts_deque used by one thread                                             *)
(*                                                                         *)
(* With a single thread every std::scoped_lock and std::unique_lock is     *)
(* acquired at once and released at the end of the member function, and    *)
(* notify_one finds no waiter, so a member function is one step.  front,   *)
(* back, pop_front and pop_back of an empty deque are undefined: the call  *)
(* returns any value and the object is not used any further.               *)
(***************************************************************************)
SqValues == 1..2
SqOps == {"push_back", "push_front", "front", "back", "pop_front", "pop_back",
          "size", "empty", "clear"}
SqNeedsElement == {"front", "back", "pop_front", "pop_back"}

\* the result of a member function: the deque it leaves, and what it returns
SqResult(d, value, flag) == [m_deque |-> d, value |-> value, flag |-> flag]

\* ts_deque::empty, size, back, front, clear
ts_empty(d) == SqResult(d, Garbage, d = <<>>)
ts_size(d) == SqResult(d, Len(d), FALSE)
ts_back(d) == SqResult(d, Back(d), FALSE)
ts_front(d) == SqResult(d, Front(d), FALSE)
ts_clear(d) == SqResult(<<>>, Garbage, FALSE)

\* ts_deque::push_back, push_front
ts_push_back(d, v) == SqResult(EmplaceBack(d, v), Garbage, FALSE)
ts_push_front(d, v) == SqResult(EmplaceFront(d, v), Garbage, FALSE)

\* ts_deque::pop_front, pop_back
ts_pop_front(d) == SqResult(PopFront(d), Front(d), FALSE)
ts_pop_back_TakesFront(d) == SqResult(PopBack(d), Front(d), FALSE)
ts_pop_back(d) == SqResult(PopBack(d), Back(d), FALSE)

SqInit ==
    sq = [m_deque |-> <<>>,
          \* the last call, for the claims
          call |-> "none",       \* the member function
          arg |-> Garbage,       \* its argument
          before |-> <<>>,       \* m_deque when it was called
          value |-> Garbage,     \* the element or the number it returned
          flag |-> FALSE,        \* the truth value it returned
          undefined |-> FALSE,   \* it was called against its precondition
          nCalls |-> 0]

\* a step of the single thread leaves the other parts alone
SqStep ==
    /\ variant = "deque-single"
    /\ ~sq.undefined
    /\ sq.nCalls < MaxSqCalls
    /\ UNCHANGED <<variant, hostEndian, dqVars, udpVars, tcpVars, conVars, lifeVars, updVars, dgcVars, tclVars, msgVars, thrVars>>

SqReturn(op, v, r) ==
    sq' = [sq EXCEPT !.m_deque = r.m_deque, !.call = op, !.arg = v, !.before = sq.m_deque,
                     !.value = r.value, !.flag = r.flag, !.nCalls = @ + 1]

\* the thread calls push_back(v) or push_front(v)
SqPush(op, v) ==
    /\ SqStep
    /\ SqReturn(op, v, IF op = "push_back" THEN ts_push_back(sq.m_deque, v)
                                           ELSE ts_push_front(sq.m_deque, v))

\* the thread calls front(), back(), pop_front() or pop_back() of a deque that
\* holds an element
SqTake(op) ==
    /\ SqStep
    /\ sq.m_deque # <<>>
    /\ SqReturn(op, Garbage, CASE op = "front" -> ts_front(sq.m_deque)
                               [] op = "back" -> ts_back(sq.m_deque)
                               [] op = "pop_front" -> ts_pop_front(sq.m_deque)
                               [] op = "pop_back" -> ts_pop_back(sq.m_deque))

\* the same of an empty deque: undefined behaviour
SqTakeOfEmpty(op, garbage) ==
    /\ SqStep
    /\ sq.m_deque = <<>>
    /\ sq' = [sq EXCEPT !.call = op, !.arg = Garbage, !.before = <<>>, !.value = garbage,
                        !.undefined = TRUE, !.nCalls = @ + 1]

\* the thread calls size(), empty() or clear()
SqAsk(op) ==
    /\ SqStep
    /\ SqReturn(op, Garbage, CASE op = "size" -> ts_size(sq.m_deque)
                               [] op = "empty" -> ts_empty(sq.m_deque)
                               [] op = "clear" -> ts_clear(sq.m_deque))

SqNext ==
    \/ \E op \in {"push_back", "push_front"}, v \in SqValues : SqPush(op, v)
    \/ \E op \in SqNeedsElement : SqTake(op)
    \/ \E op \in SqNeedsElement, garbage \in SqValues \cup {Garbage} : SqTakeOfEmpty(op, garbage)
    \/ \E op \in {"size", "empty", "clear"} : SqAsk(op)

(***************************************************************************)
(* message: operator<< and operator>>                                      *)
(*                                                                         *)
(* The body is a stack of bytes.  operator<< copies the sizeof(U) bytes of *)
(* the object to its end, operator>> copies the last sizeof(U) bytes into  *)
(* the object and cuts them off; both then store the length of the body in *)
(* m_header.m_size.  An object of an unsigned integer type is held as its  *)
(* base-256 digits, most significant first; its bytes in memory follow the *)
(* byte order of the host.                                                 *)
(***************************************************************************)
\* sizeof(U) of the types the application pushes and pops
SizeOf == [uint8_t |-> 1, uint16_t |-> 2, uint32_t |-> 4]
DataTypes == DOMAIN SizeOf
\* the objects the application pushes
DataValues == [uint8_t |-> {<<7>>, <<200>>},
               uint16_t |-> {<<0, 7>>, <<1, 2>>},
               uint32_t |-> {<<0, 0, 0, 7>>, <<1, 2, 3, 4>>}]
NoValue == <<>>

\* the bytes of an object of type U in memory, and the object that bytes in memory hold
ObjectBytes(U, data, endian) == Mem(data, endian)
ObjectOf(U, b, endian) == Val(b, endian)

\* std::vector<uint8_t>::resize
VectorResize(v, n) == [i \in 1..n |-> IF i <= Len(v) THEN v[i] ELSE 0]
\* std::memcpy(v.data() + at, src, Len(src))
Memcpy(v, at, src) == [i \in 1..Len(v) |-> IF i > at /\ i <= at + Len(src) THEN src[i - at] ELSE v[i]]

\* message(T type)
NewMessage(type) == [m_header |-> [m_type |-> U32(type), m_size |-> U32(0)], m_body |-> <<>>]

\* operator<<(message<T>& msg, const U& data)
ShiftIn(msg, U, data, endian) ==
    LET sz == Len(msg.m_body)
        m_body == Memcpy(VectorResize(msg.m_body, sz + SizeOf[U]), sz, ObjectBytes(U, data, endian))
    IN [msg EXCEPT !.m_body = m_body, !.m_header.m_size = U32(Len(m_body))]

\* operator>>(message<T>& msg, U& data) of a body that holds sizeof(U) bytes or
\* more: the message it leaves, and the object
ShiftOut_FromFront(msg, U, endian) ==
    LET m_body == SubSeq(msg.m_body, SizeOf[U] + 1, Len(msg.m_body))
    IN [msg |-> [msg EXCEPT !.m_body = m_body, !.m_header.m_size = U32(Len(m_body))],
        data |-> ObjectOf(U, SubSeq(msg.m_body, 1, SizeOf[U]), endian)]

ShiftOut(msg, U, endian) ==
    LET sz == Len(msg.m_body) - SizeOf[U]
        m_body == VectorResize(msg.m_body, sz)
    IN [msg |-> [msg EXCEPT !.m_body = m_body, !.m_header.m_size = U32(Len(m_body))],
        data |-> ObjectOf(U, SubSeq(msg.m_body, sz + 1, sz + SizeOf[U]), endian)]

MsgInit ==
    mg = [msg |-> NewMessage(1),
          \* what the application did, for the claims
          pushed |-> <<>>,     \* the objects pushed and not yet popped, the last one first
          floor |-> 0,         \* the bytes of the body below them, left by pops of other types
          pops |-> <<>>,       \* of every pop: the type, the object, and the object pushed
          nOps |-> 0]

\* a step of the application on the message leaves the other parts alone
MsgStep ==
    /\ variant = "message"
    /\ mg.nOps < MaxMsgOps
    /\ UNCHANGED <<variant, hostEndian, dqVars, udpVars, tcpVars, conVars, lifeVars, updVars, dgcVars, tclVars, sqVars, thrVars>>

\* msg << data
MsgPush(U, data) ==
    /\ MsgStep
    /\ mg' = [mg EXCEPT !.msg = ShiftIn(mg.msg, U, data, hostEndian),
                        !.pushed = <<[type |-> U, data |-> data]>> \o @,
                        !.nOps = @ + 1]

\* msg >> data, for a body that holds an object of the type
MsgPop(U) ==
    /\ MsgStep
    /\ Len(mg.msg.m_body) >= SizeOf[U]
    /\ LET out == ShiftOut(mg.msg, U, hostEndian)
           onTop == mg.pushed # <<>> /\ mg.pushed[1].type = U
       IN mg' = [mg EXCEPT !.msg = out.msg,
                           !.pushed = IF onTop THEN Tail(@) ELSE <<>>,
                           !.floor = IF onTop THEN @ ELSE Len(out.msg.m_body),
                           !.pops = Append(@, [type |-> U, data |-> out.data,
                                               pushed |-> IF onTop THEN mg.pushed[1].data
                                                                   ELSE NoValue]),
                           !.nOps = @ + 1]

MsgNext ==
    \/ \E U \in DataTypes : \E data \in DataValues[U] : MsgPush(U, data)
    \/ \E U \in DataTypes : MsgPop(U)

(***************************************************************************)
(* The threads of a server                                                 *)
(*                                                                         *)
(* A server is used by two threads: the thread of the application, which   *)
(* calls Start, Stop, MessageClient, MessageAllClients and Update, and the *)
(* thread m_threadContext, which runs the completion handlers and the      *)
(* posted handlers inside m_asioContext.run().  A call or a handler is     *)
(* held as the sequence of what it does to the registry (the maps          *)
(* m_activeConnections of the stream server, m_endpointToUserId and        *)
(* m_userIdToUser of the datagram server) and to the application:          *)
(*   "read", "write"   an access to the registry, which has no lock and    *)
(*                     takes time: the other thread may run meanwhile      *)
(*   "On..."           a call of the virtual function of that name         *)
(*   "post", "push"    boost::asio::post, a push to m_qMessagesIn          *)
(*   "start", "join"   the start of the thread, the wait for its end       *)
(***************************************************************************)
Threads == {"app", "worker"}
Callbacks == {"OnClientConnect", "OnClientValidate", "OnClientDisconnect", "OnMessage"}
Accesses == {"read", "write"}

\* tcp::server::MessageClient: find, then Send, or erase and OnClientDisconnect
StreamMessageClient == {<<"read", "post">>, <<"read", "write", "OnClientDisconnect">>}
\* tcp::server::MessageAllClients: the loop over the map with Send, then the
\* erase loop and the OnClientDisconnect loop when a client was not connected
StreamMessageAllClients ==
    {<<"read">>, <<"read", "post">>, <<"read", "post", "write", "OnClientDisconnect">>}
\* tcp::server::Stop: post, the loop over the map, join
StreamStop == {<<"post", "read", "join">>}
\* the handler of async_accept: OnClientConnect, then emplace and at
StreamAccept == {<<"OnClientConnect">>, <<"OnClientConnect", "write", "read">>}
\* the handler of connection::ReadValidation on the connection of the server
StreamReadValidation == {<<"OnClientValidate">>, <<>>}
\* connection::AddToIncomingMessageQueue, from the handler of a read
AddToIncomingMessageQueueSteps_Dispatches == <<"push", "OnMessage">>
AddToIncomingMessageQueueSteps == <<"push">>

\* udp::server::MessageClient and Send
DatagramMessageClient == {<<"post">>}
\* udp::server::MessageAllClients: the loop over m_userIdToUser with Send
DatagramMessageAllClients == {<<"read">>, <<"read", "post">>}
\* udp::server::Stop
DatagramStop == {<<"post", "join">>}
\* udp::server::CleanupUsers: the loop over m_userIdToUser, then the erase loop
\* and the OnClientDisconnect loop when a user has timed out
CleanupUsersSteps == {<<"read">>, <<"read", "write", "OnClientDisconnect">>}
\* what the handler of async_receive_from does after CleanupUsers:
\* HandleNewConnection, HandleValidation or ProcessMessage
AfterCleanupSteps ==
    {<<"read">>, <<"read", "OnClientConnect">>, <<"read", "OnClientConnect", "write">>,
     <<"read", "write">>, <<"read", "write", "OnClientValidate">>,
     <<"read", "write", "push">>}
\* the handler of async_receive_from in udp::server::WaitForMessages
DatagramReceive == {c \o a : c \in CleanupUsersSteps, a \in AfterCleanupSteps}
\* the handler Send posts: SendMessages when nothing is being sent
DatagramSendPosted == {<<>>} \cup {c \o <<"read">> : c \in CleanupUsersSteps}

\* server::Start and server::Update of both servers
StartSteps == {<<"start">>}
UpdateSteps == {<<>>, <<"OnMessage">>}

\* the calls of the application, and the handlers of the thread of the context
Calls(v) ==
    StartSteps \cup UpdateSteps \cup
    (IF v = "stream-threads"
       THEN StreamMessageClient \cup StreamMessageAllClients \cup StreamStop
       ELSE DatagramMessageClient \cup DatagramMessageAllClients \cup DatagramStop)
Handlers(v) ==
    IF v = "stream-threads"
      THEN StreamAccept \cup StreamReadValidation \cup {AddToIncomingMessageQueueSteps}
      ELSE DatagramReceive \cup DatagramSendPosted

ThrInit ==
    thr = [running |-> FALSE,                        \* m_threadContext runs m_asioContext
           todo |-> [t \in Threads |-> <<>>],        \* what is left of the call or handler
           inside |-> [t \in Threads |-> "none"],    \* the access to the registry in progress
           callbacks |-> {},                         \* <<function, thread>> of the calls made
           nCalls |-> 0,
           nHandlers |-> 0]

\* a step of a thread of the server leaves the other parts alone
ThrStep ==
    /\ variant \in {"stream-threads", "datagram-threads"}
    /\ UNCHANGED <<variant, hostEndian, dqVars, udpVars, tcpVars, conVars, lifeVars, updVars, dgcVars, tclVars, sqVars, msgVars>>

\* thread t has p to do next
ThrAt(t, p) == thr.todo[t] # <<>> /\ Head(thr.todo[t]) = p
ThrDone(t) == [thr EXCEPT !.todo[t] = Tail(@)]

\* the application calls a member function of the server
ThrCall(steps) ==
    /\ ThrStep
    /\ thr.todo["app"] = <<>>
    /\ thr.nCalls < MaxThrCalls
    /\ thr' = [thr EXCEPT !.todo["app"] = steps, !.nCalls = @ + 1]

\* m_asioContext.run() starts a handler; it runs one handler at a time
ThrHandler(steps) ==
    /\ ThrStep
    /\ thr.running
    /\ thr.todo["worker"] = <<>>
    /\ thr.nHandlers < MaxThrHandlers
    /\ thr' = [thr EXCEPT !.todo["worker"] = steps, !.nHandlers = @ + 1]

\* a thread begins an access to the registry
ThrEnter(t) ==
    /\ ThrStep
    /\ \E a \in Accesses : ThrAt(t, a)
    /\ thr.inside[t] = "none"
    /\ thr' = [thr EXCEPT !.inside[t] = Head(thr.todo[t])]

\* and ends it
ThrLeave(t) ==
    /\ ThrStep
    /\ thr.inside[t] # "none"
    /\ thr' = [ThrDone(t) EXCEPT !.inside[t] = "none"]

\* a thread calls OnClientConnect, OnClientValidate, OnClientDisconnect or OnMessage
ThrCallback(t) ==
    /\ ThrStep
    /\ \E c \in Callbacks : ThrAt(t, c)
    /\ thr' = [ThrDone(t) EXCEPT !.callbacks = @ \cup {<<Head(thr.todo[t]), t>>}]

\* boost::asio::post and the push to m_qMessagesIn: neither touches the registry
ThrPost(t) ==
    /\ ThrStep
    /\ ThrAt(t, "post") \/ ThrAt(t, "push")
    /\ thr' = ThrDone(t)

\* Start: m_threadContext = std::thread([this]() { m_asioContext.run(); })
ThrStart ==
    /\ ThrStep
    /\ ThrAt("app", "start")
    /\ thr' = [ThrDone("app") EXCEPT !.running = TRUE]

\* Stop: m_threadContext.join() returns once the handler in progress has ended
\* and run() has returned
ThrJoin ==
    /\ ThrStep
    /\ ThrAt("app", "join")
    /\ thr.todo["worker"] = <<>>
    /\ thr' = [ThrDone("app") EXCEPT !.running = FALSE]

ThrNext ==
    \/ \E steps \in Calls(variant) : ThrCall(steps)
    \/ \E steps \in Handlers(variant) : ThrHandler(steps)
    \/ \E t \in Threads : ThrEnter(t)
    \/ \E t \in Threads : ThrLeave(t)
    \/ \E t \in Threads : ThrCallback(t)
    \/ \E t \in Threads : ThrPost(t)
    \/ ThrStart
    \/ ThrJoin

(***************************************************************************)
(* Specifications                                                          *)
(***************************************************************************)
InitAll ==
    DqInit /\ UdpInit /\ TcpInit /\ ConInit /\ LifeInit /\ UpdInit /\ DgcInit /\ TclInit /\ SqInit /\ MsgInit /\ ThrInit

\* the two threads of either server
InitThreads == variant \in {"stream-threads", "datagram-threads"} /\ hostEndian = "little" /\ InitAll
SpecThreads == InitThreads /\ [][ThrNext]_vars

\* pushes to and pops from one message
InitMessage == variant = "message" /\ hostEndian \in {"little", "big"} /\ InitAll
SpecMessage == InitMessage /\ [][MsgNext]_vars

\* ts_deque used by one thread
InitSingle == variant = "deque-single" /\ hostEndian = "little" /\ InitAll
SpecSingle == InitSingle /\ [][SqNext]_vars

InitDeque == variant = "deque" /\ hostEndian = "little" /\ InitAll
SpecDeque == InitDeque /\ [][DqNext]_vars

\* ts_deque with every member function called
InitLocks == variant = "deque-locks" /\ hostEndian = "little" /\ InitAll
SpecLocks == InitLocks /\ [][LocksNext]_vars

InitUdp == variant \in {"datagram", "broadcast"} /\ hostEndian \in {"little", "big"} /\ InitAll
SpecUdp == InitUdp /\ [][UdpNext]_vars

\* the datagram server with several sends queued at once
InitPipeline == variant \in {"datagram", "pipeline"} /\ hostEndian = "little" /\ InitAll
SpecPipeline == InitPipeline /\ [][UdpNext]_vars

InitTcp == variant = "stream-server" /\ hostEndian = "little" /\ InitAll
SpecTcp == InitTcp /\ [][TcpNext]_vars

\* the stream server and the handlers of its sessions
InitSessions == variant = "stream-sessions" /\ hostEndian = "little" /\ InitAll
SpecSessions == InitSessions /\ [][SessionsNext]_vars

\* the dispatch of inbound messages by either server
DispatchNext == UdpNext \/ SessionsNext
InitDispatch == InitUdp \/ InitSessions
SpecDispatch == InitDispatch /\ [][DispatchNext]_vars

ServersNext == UdpNext \/ TcpNext
InitServers == InitUdp \/ InitTcp
SpecServers == InitServers /\ [][ServersNext]_vars

\* one stream session
InitStream == variant = "stream" /\ hostEndian \in {"little", "big"} /\ InitAll
SpecStream == InitStream /\ [][ConNext]_vars

\* the datagram server, or the session of a client of the stream server
GatingNext == UdpNext \/ ConNext
InitGating == InitUdp \/ InitStream
SpecGating == InitGating /\ [][GatingNext]_vars

\* a server started and stopped by the application
InitLifecycle == variant \in LifeVariants /\ hostEndian = "little" /\ InitAll
SpecLifecycle == InitLifecycle /\ [][LifeNext]_vars

\* Update called by the application while handlers push messages
InitUpdate == variant = "update" /\ hostEndian = "little" /\ InitAll
SpecUpdate == InitUpdate /\ [][UpdNext]_vars

\* a datagram client and its server
InitDatagramClient == variant = "datagram-client" /\ hostEndian = "little" /\ InitAll
SpecDatagramClient == InitDatagramClient /\ [][DgcNext]_vars

\* the clients of both variants
ClientsNext == DgcNext \/ TclNext
InitClients ==
    variant \in {"datagram-client", "stream-client"} /\ hostEndian = "little" /\ InitAll
SpecClients == InitClients /\ [][ClientsNext]_vars

\* messages from Send to the queue of the peer, in a stream session and by datagrams
FramingNext == ConNext \/ DgcNext
InitFraming == InitStream \/ InitDatagramClient
SpecFraming == InitFraming /\ [][FramingNext]_vars

(***************************************************************************)
(* Claims about ts_deque                                                   *)
(***************************************************************************)
DqAllIdle == \A t \in DqThreads : dqPc[t] = "idle"
DqNoDuplicates(q) == \A i, j \in 1..Len(q) : i # j => q[i] # q[j]
DqRange(q) == {q[i] : i \in 1..Len(q)}

\* C6: a thread calls wait() on an empty deque while another thread performs one
\* push_back or push_front: the notification of the push cannot be lost, so once
\* the push has returned the waiter is not left blocked on the condition variable
C6_NotificationNotLost ==
    (dqCalls["wait"] = 1 /\ DqPushCalls = 1 /\ DqPushDone = 1 /\ DqPopCalls = 0)
        => \A t \in DqThreads : dqPc[t] # "blocked"

\* C7: in every interleaving of pushes and pops in which no pop ran on an empty
\* deque, no element is returned by two pops, every returned element was pushed,
\* size() (readable only while m_mutexDeque is free) equals the completed pushes
\* minus the completed pops, and after as many pops as pushes the deque is empty
\* and every pushed element has been returned
C7_ContentionSafe ==
    ~dqPopOnEmpty =>
        /\ DqNoDuplicates(dqReturned)
        /\ DqRange(dqReturned) \subseteq 1..DqPushCalls
        /\ m_mutexDeque = NoThread => Len(m_deque) = DqPushDone - DqPopDone
        /\ (DqAllIdle /\ DqPushDone = DqPopDone)
              => (m_deque = <<>> /\ DqRange(dqReturned) = 1..DqPushDone)

\* two pushes and two pops have completed, none of the pops on an empty deque
C7_Witness ==
    /\ DqAllIdle
    /\ ~dqPopOnEmpty
    /\ DqPushDone = 2
    /\ DqPopDone = 2
    /\ dqDone["push_front"] >= 1
    /\ dqDone["pop_back"] >= 1

(***************************************************************************)
(* Claims about udp::server                                                *)
(***************************************************************************)
UdpTrace == udp.trace
UdpEvents(kind) == {i \in 1..Len(UdpTrace) : UdpTrace[i][1] = kind}
UdpEventsOf(kind, id) == {i \in UdpEvents(kind) : UdpTrace[i][2] = id}

\* what a run of CleanupUsers that entered at position k of the trace, with the
\* users in `due` to remove, must have done by the end of the handler
UdpCleanupDone(k, due) ==
    /\ \A id \in due :
         /\ Cardinality(UdpEventsOf("erase", id)) = 1
         /\ Cardinality(UdpEventsOf("OnClientDisconnect", id)) = 1
         /\ id \notin DOMAIN udp.m_userIdToUser
         /\ \A e \in DOMAIN udp.m_endpointToUserId : udp.m_endpointToUserId[e] # id
    /\ \A i \in UdpEvents("erase"), j \in UdpEvents("OnClientDisconnect") : k < i /\ i < j
    /\ \A i \in UdpEvents("erase") \cup UdpEvents("OnClientDisconnect"),
          j \in UdpEvents("dispatch") \cup UdpEvents("async_send_to") : i < j

\* C3 as stated: whenever CleanupUsers runs, each peer with now - last_message_at >
\* timeout_ms is removed from both maps before the datagram is dispatched or the
\* message written, OnClientDisconnect is called once for each id removed, after
\* all removals, and no id gets OnClientDisconnect twice
C3_TimeoutCleanup ==
    /\ \A k \in UdpEvents("CleanupUsers") :
         LET now == UdpTrace[k][2]
             last == UdpTrace[k][3]
         IN UdpCleanupDone(k, {id \in DOMAIN last :
                                  now - last[id] > ServerTimeoutMs * TicksPerMs})
    /\ \A id \in UdpIds : udp.nDisconnect[id] <= 1

\* C3, amended: the peers removed are those whose time since the last message, in
\* whole milliseconds rounded down, exceeds timeout_ms, and no others; the rest
\* of the claim as stated
C3_TimeoutCleanupWholeMs ==
    /\ \A k \in UdpEvents("CleanupUsers") :
         LET now == UdpTrace[k][2]
             last == UdpTrace[k][3]
             due == {id \in DOMAIN last :
                        (now - last[id]) \div TicksPerMs > ServerTimeoutMs}
         IN /\ UdpCleanupDone(k, due)
            /\ \A id \in DOMAIN last \ due :
                 UdpEventsOf("erase", id) \cup UdpEventsOf("OnClientDisconnect", id) = {}
    /\ \A id \in UdpIds : udp.nDisconnect[id] <= 1

\* a datagram was dispatched after CleanupUsers removed every user of a registry of
\* MaxUdpUsers users, one of them validated
C3_Witness ==
    /\ UdpEvents("dispatch") # {}
    /\ Cardinality(UdpEvents("erase")) = MaxUdpUsers
    /\ Cardinality(UdpEvents("OnClientDisconnect")) = MaxUdpUsers
    /\ \E id \in UdpIds : udp.nValidate[id] = 1 /\ udp.nDisconnect[id] = 1

\* C10: after MessageAllClients(msg, ignore) met two or more recipients, the message
\* posted for each of them has the type, the header size and the body of msg
C10_EveryRecipientGetsMsg ==
    (UdpTrace # <<>> /\ UdpTrace[1][1] = "MessageAllClients") =>
        LET msg == UdpTrace[1][2]
            ignoreId == UdpTrace[1][3]
            users == UdpTrace[1][4]
            recipients == {users[i] : i \in 1..Len(users)} \ {ignoreId}
            n == Cardinality(recipients)
        IN n >= 2 =>
             \A id \in recipients :
                \E i \in (Len(udpPosted) - n + 1)..Len(udpPosted) :
                    /\ udpPosted[i].userId = id
                    /\ udpPosted[i].msg.m_header = msg.m_header
                    /\ udpPosted[i].msg.m_body = msg.m_body

(***************************************************************************)
(* Claims about tcp::server                                                *)
(***************************************************************************)
TcpTrace == tcp.trace
TcpEvents(kind) == {i \in 1..Len(TcpTrace) : TcpTrace[i][1] = kind}
TcpEventsOf(kind, id) == {i \in TcpEvents(kind) : TcpTrace[i][2] = id}

\* C2: OnClientDisconnect(id) is called at most once for every id, whatever calls of
\* MessageClient and MessageAllClients are made, also MessageClient calls with an id
\* that is not in the registry
C2_DisconnectAtMostOnce == \A id \in TcpIds : tcp.nDisconnect[id] <= 1

\* C9: MessageAllClients(msg, ignore) sends one copy of msg to every connection of
\* the registry, other than ignore, that is connected; sends nothing to ignore and
\* leaves it in the registry; erases every other connection it saw not connected
\* and calls OnClientDisconnect once for it, after all sends and all erasures
C9_MessageAllClients ==
    (TcpTrace # <<>> /\ TcpTrace[1][1] = "MessageAllClients") =>
        LET msg == TcpTrace[1][2]
            ignoreClient == TcpTrace[1][3]
            connected == TcpTrace[1][4]
            sends(id) == TcpEventsOf("Send", id)
            erasures(id) == TcpEventsOf("erase", id)
            calls(id) == TcpEventsOf("OnClientDisconnect", id)
        IN /\ \A id \in DOMAIN connected \ {ignoreClient} :
                IF connected[id]
                  THEN /\ Cardinality(sends(id)) = 1
                       /\ \A i \in sends(id) : TcpTrace[i][3] = msg
                       /\ erasures(id) \cup calls(id) = {}
                       /\ id \in DOMAIN tcp.m_activeConnections
                  ELSE /\ sends(id) = {}
                       /\ Cardinality(erasures(id)) = 1
                       /\ Cardinality(calls(id)) = 1
                       /\ id \notin DOMAIN tcp.m_activeConnections
           /\ sends(ignoreClient) \cup erasures(ignoreClient) \cup calls(ignoreClient) = {}
           /\ ignoreClient \in DOMAIN connected => ignoreClient \in DOMAIN tcp.m_activeConnections
           /\ \A i \in TcpEvents("Send") \cup TcpEvents("erase"),
                 j \in TcpEvents("OnClientDisconnect") : i < j

\* MessageAllClients met a connected connection, one that was not connected and an
\* ignored one that was not connected either
C9_Witness ==
    /\ TcpTrace # <<>>
    /\ TcpTrace[1][1] = "MessageAllClients"
    /\ TcpTrace[1][3] \in DOMAIN TcpTrace[1][4]
    /\ ~TcpTrace[1][4][TcpTrace[1][3]]
    /\ TcpEvents("Send") # {}
    /\ TcpEvents("OnClientDisconnect") # {}

(***************************************************************************)
(* Claims about both servers                                               *)
(***************************************************************************)
\* the ids a server gave out are 100000, 100001, ... without a gap, the counter is
\* the next one, and the registry holds ids that were given out only
IdsInSequence(m_uidCounter, assigned, registered) ==
    /\ m_uidCounter = FirstClientId + Len(assigned)
    /\ \A i \in 1..Len(assigned) : assigned[i] = FirstClientId + i - 1
    /\ registered \subseteq {assigned[i] : i \in 1..Len(assigned)}

\* C8: in both servers the first accepted peer gets id 100000 and each later one the
\* id before plus 1, so no id is given twice, also after a peer was removed; a
\* connection that OnClientConnect denies, that fails the magic-number check or
\* that ends in an accept error moves neither the counter nor the ids given out
C8_IdAllocation ==
    /\ IdsInSequence(udp.m_uidCounter, udp.assigned, DOMAIN udp.m_userIdToUser)
    /\ IdsInSequence(tcp.m_uidCounter, tcp.assigned, DOMAIN tcp.m_activeConnections)
    /\ \A e \in DOMAIN udp.m_endpointToUserId :
          udp.m_endpointToUserId[e] \in DOMAIN udp.m_userIdToUser

\* the stream server has just accepted its second peer, after the first one was
\* erased, a connection was denied and an accept failed
C8_Witness ==
    /\ tcp.assigned = <<FirstClientId, FirstClientId + 1>>
    /\ tcp.trace = <<<<"OnClientConnect", TRUE>>>>
    /\ DOMAIN tcp.m_activeConnections = {FirstClientId + 1}
    /\ tcp.denied
    /\ tcp.acceptError

(***************************************************************************)
(* Claims about tcp::connection                                            *)
(***************************************************************************)
\* the messages this side has put in the inbound queue of its owner
Received(side) == [i \in 1..Len(con[side].m_qMessagesIn) |-> con[side].m_qMessagesIn[i].m_msg]
IsPrefix(a, b) == Len(a) <= Len(b) /\ \A i \in 1..Len(a) : a[i] = b[i]

\* the handshake has succeeded on both ends
SessionValidated == con.server.nValidate > 0 /\ con.client.handshakeDone

\* no handler of either side can run: nothing is posted, no write is in flight,
\* no connection waits to be accepted, and each read in flight waits for bytes
ConQuiet ==
    /\ con.client.established => con.server.up
    /\ \A side \in Sides :
         /\ con[side].posted = <<>>
         /\ con[side].writes = <<>>
         /\ \/ con[side].read = "none"
            \/ /\ con[side].read # "connect"
               /\ con[side].open
               /\ ~PeerClosed(side)
               /\ Len(Arrived(side)) < con[side].need

\* C1: in a validated session without transport error in which Send was not called
\* before the handshake, the messages the peer of a side has received are at every moment the first of the messages given to Send
\* on that side, each whole and in the order of the calls, and they are all of
\* them once every posted send and every write and read has completed.
C1_SendsArriveInOrder ==
    \A side \in Sides :
        (SessionValidated /\ ~con.error /\ ~con.client.earlySend /\ ~con.server.earlySend) =>
            /\ IsPrefix(Received(Peer(side)), con[side].sendLog)
            /\ ConQuiet => Received(Peer(side)) = con[side].sendLog
            /\ \A i \in 1..Len(con[Peer(side)].m_qMessagesIn) :
                   con[Peer(side)].m_qMessagesIn[i].m_remote = con[Peer(side)].m_id

\* the client has sent two different messages in a validated session, and the
\* server has received both
C1_Witness ==
    /\ SessionValidated /\ ~con.error /\ ~con.client.earlySend
    /\ Len(con.client.sendLog) = 2
    /\ con.client.sendLog[1] # con.client.sendLog[2]
    /\ Received("server") = con.client.sendLog
    /\ ConQuiet

\* the answer to the challenge of the server's connection, as it travels
ExpectedAnswer == ScrambleOf(con.server.m_handshakeOut)

\* C4: the server's connection has called OnClientValidate, once, and reads
\* messages only if the 8 bytes ReadValidation received are Scramble of its
\* challenge m_handshakeOut in network byte order; after any other 8 bytes the
\* socket is closed, nothing was written since, no read is in flight and
\* OnClientValidate was not called.
C4_ServerValidatesOnlyCorrectAnswer ==
    LET s == con.server
    IN /\ (s.nValidate > 0 \/ s.read \in {"header", "body"} \/ s.m_qMessagesIn # <<>>) =>
              s.answer = ExpectedAnswer /\ s.nValidate = 1
       /\ (s.answer # <<>> /\ s.answer # ExpectedAnswer) =>
              /\ ~s.open
              /\ s.nValidate = 0
              /\ s.read = "none"
              /\ Len(s.put) = s.putAtAnswer

\* the server has received the header of a message the client sent too early in
\* place of the answer, and has closed
C4_Witness ==
    /\ con.client.earlySend
    /\ con.server.answer = HeaderBytes(Message(2, <<7>>).m_header, "big")
    /\ ~con.server.open
    /\ con.server.nValidate = 0

\* C5: once no handler can run any more, a client whose connection the server
\* accepted, without transport error and without a send before the handshake, is
\* validated on both ends, OnClientValidate was called once, and every message
\* either side sent has reached the other.
C5_HandshakeCompletes ==
    (/\ ConQuiet
     /\ con.server.up /\ ~con.denied
     /\ ~con.error
     /\ ~con.client.earlySend /\ ~con.server.earlySend) =>
        /\ SessionValidated
        /\ con.server.nValidate = 1
        /\ Received("server") = con.client.sendLog
        /\ Received("client") = con.server.sendLog

(***************************************************************************)
(* Further claims about udp::server                                        *)
(***************************************************************************)
\* the datagram the handler that ran last was given, and the endpoint it came from
UdpDispatched == {i \in 1..Len(udp.trace) : udp.trace[i][1] = "dispatch"}

\* the users the handler that ran last erased in CleanupUsers
UdpErased == {udp.trace[i][2] : i \in {j \in 1..Len(udp.trace) : udp.trace[j][1] = "erase"}}

\* a connection request as it travels: the magic number, most significant byte first
IsConnectionRequest(d) == d = <<0, 0, 0, 0, 38, 229, 85, 0>>

\* a message as it travels: type, the length of the body most significant byte
\* first, and as many body bytes as the length says
IsWellFormedMessage(d) ==
    /\ Len(d) >= 8
    /\ <<d[5], d[6], d[7], d[8]>> = U32(Len(d) - 8)

\* C19: a step in which the server handles a datagram that is not a connection
\* request, from an endpoint that is in no registry map when the datagram is
\* dispatched, leaves m_uidCounter as it was, adds no entry to either map, does
\* not call OnClientConnect, and sends nothing: no validation datagram, no
\* message, no posted send.
C19_UnknownEndpointIgnored ==
    [][\A i \in {j \in 1..Len(udp'.trace) : udp'.trace[j][1] = "dispatch"} :
          LET e == udp'.trace[i][2]
              d == udp'.trace[i][3]
              unknown == \/ e \notin DOMAIN udp.m_endpointToUserId
                         \/ \E k \in 1..Len(udp'.trace) :
                              /\ udp'.trace[k][1] = "erase"
                              /\ udp'.trace[k][2] = udp.m_endpointToUserId[e]
          IN (unknown /\ ~IsConnectionRequest(d)) =>
                /\ udp'.m_uidCounter = udp.m_uidCounter
                /\ udp'.assigned = udp.assigned
                /\ DOMAIN udp'.m_endpointToUserId \subseteq DOMAIN udp.m_endpointToUserId
                /\ DOMAIN udp'.m_userIdToUser \subseteq DOMAIN udp.m_userIdToUser
                /\ \A k \in 1..Len(udp'.trace) : udp'.trace[k][1] # "OnClientConnect"
                /\ udp'.challenge = udp.challenge
                /\ udp'.sent = udp.sent
                /\ udp'.m_qMessagesOut = udp.m_qMessagesOut
                /\ udpPosted' = udpPosted]_vars

\* the server has handled eight bytes that are not the magic number, from an
\* endpoint it never registered, while another endpoint was registered
C19_Witness ==
    /\ \E i \in UdpDispatched :
         /\ Len(udp.trace[i][3]) = 8
         /\ ~IsConnectionRequest(udp.trace[i][3])
         /\ udp.challenge[udp.trace[i][2]] = <<>>
    /\ udp.m_uidCounter = FirstClientId + 1
    /\ Cardinality(DOMAIN udp.m_userIdToUser) = 1

\* C20: a validated peer leaves the registry, and OnClientDisconnect is called for
\* its id, only in a step that finds its last well-formed message (or its
\* validation) at least timeout_ms old; and every step that handles a well-formed
\* message of a validated peer makes that message its last one.  So a peer whose
\* messages are handled at intervals shorter than timeout_ms stays, whatever the
\* other peers do.
C20_NoSpuriousDisconnect ==
    [][/\ \A id \in DOMAIN udp.m_userIdToUser :
            (/\ udp.m_userIdToUser[id].m_validated
             /\ \/ id \notin DOMAIN udp'.m_userIdToUser
                \/ udp'.nDisconnect[id] # udp.nDisconnect[id]
                \/ \A e \in DOMAIN udp'.m_endpointToUserId : udp'.m_endpointToUserId[e] # id) =>
                udpNow - udp.m_userIdToUser[id].m_lastMessageTime
                    >= ServerTimeoutMs * TicksPerMs
       /\ \A i \in {j \in 1..Len(udp'.trace) : udp'.trace[j][1] = "dispatch"} :
            LET e == udp'.trace[i][2]
                d == udp'.trace[i][3]
            IN (/\ e \in DOMAIN udp'.m_endpointToUserId
                /\ e \in DOMAIN udp.m_endpointToUserId
                /\ udp.m_userIdToUser[udp.m_endpointToUserId[e]].m_validated
                /\ udp'.m_endpointToUserId[e] = udp.m_endpointToUserId[e]
                /\ IsWellFormedMessage(d)) =>
                   udp'.m_userIdToUser[udp'.m_endpointToUserId[e]].m_lastMessageTime = udpNow]_vars

\* late in the run the server has handled a well-formed message of a validated
\* peer that came less than timeout_ms after the peer's last message; the peer is
\* still registered and was never disconnected, and in the same step the
\* server removed another peer that had timed out
C20_Witness ==
    /\ UdpErased # {}
    /\ \E i \in UdpDispatched :
         LET e == udp.trace[i][2]
         IN /\ IsWellFormedMessage(udp.trace[i][3])
            /\ e \in DOMAIN udp.m_endpointToUserId
            /\ udp.m_userIdToUser[udp.m_endpointToUserId[e]].m_validated
            /\ udp.m_userIdToUser[udp.m_endpointToUserId[e]].m_lastMessageTime = udpNow
            /\ udp.nDisconnect[udp.m_endpointToUserId[e]] = 0
            /\ \E k \in UdpEvents("CleanupUsers") :
                  /\ udp.m_endpointToUserId[e] \in DOMAIN udp.trace[k][3]
                  /\ udpNow - udp.trace[k][3][udp.m_endpointToUserId[e]]
                        < ServerTimeoutMs * TicksPerMs
            /\ udp.m_qMessagesIn # <<>>
    /\ udpNow > ServerTimeoutMs * TicksPerMs

(***************************************************************************)
(* Claims about Start and Stop of the servers                              *)
(***************************************************************************)
\* the application is between two calls, and the call named was the last to return
LifeReturnedFrom(call) ==
    /\ life.pc = "idle"
    /\ ~life.terminated
    /\ life.calls # <<>>
    /\ life.calls[Len(life.calls)] = call

\* C13: when Stop of the stream server has returned, the socket of every
\* connection that was in m_activeConnections with an open socket when Stop was
\* called is closed, and the thread has been joined.
C13_StopClosesSessions ==
    (variant = "stream-lifecycle" /\ LifeReturnedFrom("Stop")) =>
        /\ \A id \in life.atStop : ~life.m_activeConnections[id]
        /\ ~life.joinable
        /\ life.worker = "none"

\* C14: a Start that follows a Stop, whatever calls came before, returns true and
\* from its return to the next call the thread runs the context, which is not
\* stopped and has an accept or receive operation armed.
C14_StartAfterStopServes ==
    (/\ LifeReturnedFrom("Start")
     /\ Len(life.calls) >= 2
     /\ life.calls[Len(life.calls) - 1] = "Stop") =>
        /\ life.returned
        /\ life.worker = "running"
        /\ ~life.stopped
        /\ life.armed > 0

\* C15: a call of Start while the thread runs a context that is not stopped
\* returns false and changes nothing else: the thread, the context, the handlers
\* posted, the operations armed and the sessions are as before.
C15_StartWhenRunningRefused ==
    [][(/\ life.pc = "idle"
        /\ life.worker = "running"
        /\ ~life.stopped
        /\ life'.calls = Append(life.calls, "Start"))
       => life' = [life EXCEPT !.calls = Append(@, "Start"), !.returned = FALSE]]_vars

\* Start was called on a running server with one operation armed, and returned false
C15_Witness ==
    /\ LifeReturnedFrom("Start")
    /\ Len(life.calls) >= 2
    /\ life.calls[Len(life.calls) - 1] = "Start"
    /\ ~life.returned
    /\ life.worker = "running"
    /\ ~life.stopped
    /\ life.armed = 1

(***************************************************************************)
(* Claims about server::Update                                             *)
(***************************************************************************)
\* OnMessage has been called for the messages pushed first, once each, with the tag
\* and the message pushed, in the order of the pushes; the others are in the deque;
\* a call has dispatched at most maxMessages; and a call with wait never found the
\* deque empty when it began to drain
UpdDispatchedInOrder ==
    /\ IsPrefix(upd.dispatched, upd.pushed)
    /\ upd.dispatched \o upd.m_qMessagesIn = upd.pushed
    /\ upd.messageCount <= upd.maxMessages
    /\ ~upd.emptyAtLoop

\* C11: Update dispatches at most maxMessages tagged messages, each popped message
\* once, with its tag, in the order of the pushes, also while handlers push; and
\* with wait = true it blocks until m_qMessagesIn is non-empty and no longer: once
\* a push has returned and left a message in the deque, Update is not blocked in
\* ts_deque::wait.
C11_UpdateDispatchesInOrder ==
    /\ UpdDispatchedInOrder
    /\ upd.pc = "blocked" => (upd.pushing \/ upd.m_qMessagesIn = <<>>)


(***************************************************************************)
(* The clients                                                             *)
(***************************************************************************)
\* C16: a message given to Send of a client while IsConnected() is false is
\* dropped: it is neither put into m_qMessagesOut nor written to the socket
\* (datagram client), and no handler is posted for it (stream client).
C16_SendDroppedUnlessConnected ==
    /\ dgc.unconnected \notin {"queued", "written"}
    /\ tcl.unconnected = "none"

\* C18, as the specification states it: a call of Send with a message larger
\* than MAX_MESSAGE_SIZE_IN_BYTES leaves the client and the server able to send.
C18_OversizeLeavesHealthy ==
    (dgc.oversize.client \/ dgc.oversize.server) => ~dgc.aborted

\* C18, amended: a call of Send (client) or MessageClient (server) with a message
\* larger than MAX_MESSAGE_SIZE_IN_BYTES posts no handler, queues no message, hands
\* nothing to the socket and changes neither registry nor times.  In a build with
\* NDEBUG that is all; otherwise the assert(false) aborts the process.
C18_OversizeRejected ==
    [][dgc'.oversize # dgc.oversize =>
         LET told == [dgc EXCEPT !.lastCall = dgc'.lastCall, !.oversize = dgc'.oversize]
         IN \/ dgc' = [told EXCEPT !.build = "NDEBUG"]
            \/ dgc.build = "any" /\ dgc' = [told EXCEPT !.aborted = TRUE]]_vars

\* after a rejected oversize message of the client a message of valid size given
\* to Send later has reached the server, and after a rejected oversize message
\* of the server a later message of the server has reached the client
C18_Witness ==
    /\ ~dgc.aborted
    /\ dgc.oversize.client
    /\ Len(dgc.server.m_qMessagesIn) > dgc.oversize.sendsBefore
    /\ dgc.oversize.server
    /\ Len(dgc.m_qMessagesIn) > dgc.oversize.serverSendsBefore

\* what the application can tell of a datagram client: everything but the clock,
\* the network, the server and the handlers that wait in m_asioContext
DgcClientState(c) ==
    [m_socket |-> c.m_socket, joinable |-> c.joinable, worker |-> c.worker,
     stopped |-> c.stopped, m_qMessagesOut |-> c.m_qMessagesOut,
     m_qMessagesIn |-> c.m_qMessagesIn, m_lastMessageTime |-> c.m_lastMessageTime,
     sends |-> c.sends, receive |-> c.receive, aborted |-> c.aborted, pc |-> c.pc]

\* the stream client without the record of what happened
TclClientState(c) ==
    [m_connection |-> c.m_connection, m_socket |-> c.m_socket, joinable |-> c.joinable,
     worker |-> c.worker, stopped |-> c.stopped, queue |-> c.queue,
     m_qMessagesOut |-> c.m_qMessagesOut, pc |-> c.pc]

\* the second of two consecutive calls of Disconnect has returned
TwiceDisconnected(c) ==
    /\ c.pc = "idle"
    /\ c.lastCall = "Disconnect"
    /\ c.afterFirst # <<>>
    /\ c.afterFirst[1].nDisconnect < c.nDisconnect

WireBytes(msg) ==
    Mem(msg.m_header.m_type, hostEndian) \o U32(Len(msg.m_body)) \o msg.m_body

RECURSIVE WireOf(_, _)
WireOf(msgs, i) == IF i > Len(msgs) THEN <<>> ELSE WireBytes(msgs[i]) \o WireOf(msgs, i + 1)

\* the tagged messages `queue` are the first of the messages `sent`, each tagged
\* `remote`, with the type, the size in host order and the body it was sent with
ArrivedAsSent(queue, sent, remote) ==
    /\ Len(queue) <= Len(sent)
    /\ \A i \in 1..Len(queue) :
           /\ queue[i].m_remote = remote
           /\ queue[i].m_msg.m_header.m_type = sent[i].m_header.m_type
           /\ queue[i].m_msg.m_header.m_size = U32(Len(sent[i].m_body))
           /\ queue[i].m_msg.m_body = sent[i].m_body

\* every handler of the datagram client and of its server has run, and no
\* datagram is on its way
DgcQuiet ==
    /\ dgc.queue = <<>> /\ dgc.sends = <<>> /\ dgc.m_qMessagesOut = <<>>
    /\ dgc.toServer = <<>> /\ dgc.toClient = <<>>
    /\ dgc.serverPosted = <<>> /\ dgc.server.m_qMessagesOut = <<>>

\* the session of the datagram client is there to carry messages: the handshake
\* is done, Send was not called before, Disconnect was not called, no send
\* has failed and the process has not aborted
DgcSessionUp ==
    /\ dgc.handshakeDone /\ ~dgc.early /\ ~dgc.error /\ ~dgc.aborted
    /\ dgc.nDisconnect = 0 /\ dgc.pc = "idle"

\* C12: framing round trip.  In a session that is validated and has met no error,
\* every message given to Send arrives in m_qMessagesIn of the peer tagged with the
\* id of the sender (the id of the client on the server, SERVER_USER_ID on the
\* client), with the same type, m_size equal to the length of the body in host
\* order and the same body, in the stream session and by datagrams; on the wire
\* the four bytes of the size have the most significant byte first.
C12_FramingRoundTrip ==
    /\ (variant = "stream" /\ SessionValidated /\ ~con.error
          /\ ~con.client.earlySend /\ ~con.server.earlySend) =>
           /\ ArrivedAsSent(con.server.m_qMessagesIn, con.client.sendLog, con.server.m_id)
           /\ ArrivedAsSent(con.client.m_qMessagesIn, con.server.sendLog, SERVER_USER_ID)
           /\ \A side \in Sides :
                  /\ IsPrefix(SubSeq(con[side].put, ValidationSize + 1, Len(con[side].put)),
                              WireOf(con[side].sendLog, 1))
                  /\ ConQuiet => Len(con[Peer(side)].m_qMessagesIn) = Len(con[side].sendLog)
    /\ (variant = "datagram-client" /\ DgcSessionUp) =>
           /\ ArrivedAsSent(dgc.server.m_qMessagesIn, dgc.sendLog, ClientId)
           /\ ArrivedAsSent(dgc.m_qMessagesIn, dgc.serverSendLog, SERVER_USER_ID)
           /\ DgcQuiet => /\ Len(dgc.server.m_qMessagesIn) = Len(dgc.sendLog)
                          /\ Len(dgc.m_qMessagesIn) = Len(dgc.serverSendLog)
    /\ variant = "datagram-client" =>
           /\ \A i \in 1..Len(dgc.sends) :
                  dgc.sends[i].kind = "message" =>
                      \E j \in 1..Len(dgc.sendLog) :
                          dgc.sends[i].data = WireBytes(dgc.sendLog[j])
           /\ \A i \in 1..Len(dgc.server.sent) :
                  \E j \in 1..Len(dgc.serverSendLog) :
                      dgc.server.sent[i].data = WireBytes(dgc.serverSendLog[j])

\* on a little-endian host the datagram client has sent a message with a body
\* and then an empty message, the server has received both, and the client has
\* received a message with a body from the server
C12_Witness ==
    /\ variant = "datagram-client" /\ hostEndian = "little"
    /\ DgcSessionUp
    /\ Len(dgc.sendLog) = 2
    /\ dgc.sendLog[1].m_body # <<>> /\ dgc.sendLog[2].m_body = <<>>
    /\ Len(dgc.server.m_qMessagesIn) = 2
    /\ Len(dgc.serverSendLog) = 1 /\ dgc.serverSendLog[1].m_body # <<>>
    /\ Len(dgc.m_qMessagesIn) = 1

\* the same in the stream session, on a little-endian host
C12_WitnessStream ==
    /\ variant = "stream" /\ hostEndian = "little"
    /\ SessionValidated /\ ~con.error /\ ~con.client.earlySend
    /\ Len(con.client.sendLog) = 2
    /\ con.client.sendLog[1].m_body # <<>> /\ con.client.sendLog[2].m_body = <<>>
    /\ Len(con.server.m_qMessagesIn) = 2

(***************************************************************************)
(* Disconnects of the stream server                                        *)
(***************************************************************************)
\* every connection the server accepted is in the registry with its socket open
AllAcceptedOpen ==
    \A i \in 1..Len(tcp.assigned) :
        /\ tcp.assigned[i] \in DOMAIN tcp.m_activeConnections
        /\ IsConnected(tcp, tcp.assigned[i])

\* C21: while the socket of every accepted connection is open, OnClientDisconnect
\* has not been called, whatever calls of MessageClient and MessageAllClients
\* the application has made.
C21_NoSpuriousDisconnectStream ==
    AllAcceptedOpen => \A id \in TcpIds : tcp.nDisconnect[id] = 0

\* the connections whose socket a handler closes in this step
ClosedInStep ==
    {id \in DOMAIN tcp.m_activeConnections :
        /\ IsConnected(tcp, id)
        /\ id \in DOMAIN tcp'.m_activeConnections
        /\ ~IsConnected(tcp', id)}

\* C26: a handler of a connection that meets an error or a wrong answer to the
\* handshake closes the socket and does nothing else: the registry keeps the
\* entry and OnClientDisconnect is not called.  An entry leaves the registry,
\* and OnClientDisconnect is called, only in a call of MessageClient or
\* MessageAllClients, and for a registered connection only if the call finds it
\* not connected.
C26_DisconnectOnlyInMessageCalls ==
    [][/\ ClosedInStep # {} =>
            /\ DOMAIN tcp'.m_activeConnections = DOMAIN tcp.m_activeConnections
            /\ tcp'.nDisconnect = tcp.nDisconnect
            /\ tcp'.nCalls = tcp.nCalls
       /\ \A id \in DOMAIN tcp.m_activeConnections \ DOMAIN tcp'.m_activeConnections :
            /\ tcp'.nCalls = tcp.nCalls + 1
            /\ ~IsConnected(tcp, id)
            /\ tcp'.nDisconnect[id] = tcp.nDisconnect[id] + 1
       /\ \A id \in TcpIds :
            tcp'.nDisconnect[id] # tcp.nDisconnect[id] =>
                /\ tcp'.nCalls = tcp.nCalls + 1
                /\ id \in DOMAIN tcp.m_activeConnections =>
                       /\ ~IsConnected(tcp, id)
                       /\ id \notin DOMAIN tcp'.m_activeConnections]_vars

\* a connection whose socket a handler had closed stayed in the registry until
\* a call of MessageAllClients erased it and called OnClientDisconnect for it,
\* while another connection stays registered with its socket closed
C26_Witness ==
    /\ TcpTrace # <<>>
    /\ TcpTrace[1][1] = "MessageAllClients"
    /\ \E id \in TcpIds :
          /\ TcpEventsOf("erase", id) # {}
          /\ TcpEventsOf("OnClientDisconnect", id) # {}
          /\ tcp.nDisconnect[id] = 1
    /\ \E id \in DOMAIN tcp.m_activeConnections : ~IsConnected(tcp, id)

(***************************************************************************)
(* The write pipeline of a connection                                      *)
(***************************************************************************)
\* the writes of a message header or body this side has in flight
MessageWrites(c) == {i \in 1..Len(c.writes) : c.writes[i].kind \in {"header", "body"}}

\* the bytes the write that is in flight for the head of m_qMessagesOut carries
HeadBytes(c, kind) ==
    IF kind = "header" THEN HeaderBytes(c.m_qMessagesOut[1].m_header, hostEndian)
    ELSE c.m_qMessagesOut[1].m_body

\* C25: a connection has at most one write of a header or of a body in flight;
\* the write in flight is for the head of m_qMessagesOut (a body only if the head
\* has one); the head is popped, alone, in the step in which the write of its
\* last bytes completes without error; this under every interleaving of the
\* handlers posted by Send with the completions of the writes.
C25_OneWriteChain ==
    [][\A side \in Sides :
          LET c == con'[side]
              before == con[side]
          IN /\ Cardinality(MessageWrites(c)) <= 1
             /\ \A i \in MessageWrites(c) :
                   /\ c.m_qMessagesOut # <<>>
                   /\ c.writes[i].kind = "body" => c.m_qMessagesOut[1].m_body # <<>>
                   /\ c.writes[i].held \in {<<>>, HeadBytes(c, c.writes[i].kind)}
             /\ c.m_qMessagesOut # before.m_qMessagesOut =>
                   \/ /\ Len(c.m_qMessagesOut) = Len(before.m_qMessagesOut) + 1
                      /\ SubSeq(c.m_qMessagesOut, 1, Len(before.m_qMessagesOut))
                            = before.m_qMessagesOut
                      /\ before.posted # <<>> /\ c.posted = Tail(before.posted)
                   \/ /\ c.m_qMessagesOut = Tail(before.m_qMessagesOut)
                      /\ before.writes # <<>>
                      /\ before.writes[1].kind =
                            (IF before.m_qMessagesOut[1].m_body = <<>>
                               THEN "header" ELSE "body")
                      /\ before.writes[1].taken]_vars

\* in a validated session a side has two messages in m_qMessagesOut, the second
\* pushed by a posted Send while the write of the first was in flight
C25_Witness ==
    \E side \in Sides :
        /\ SessionValidated /\ ~con.error
        /\ con[side].open /\ con[side].established
        /\ Len(con[side].m_qMessagesOut) = 2
        /\ con[side].m_qMessagesOut[1].m_body # <<>>
        /\ Cardinality(MessageWrites(con[side])) = 1
        /\ con[side].posted = <<>>

(***************************************************************************)
(* A connection after its socket was closed                                *)
(***************************************************************************)
\* C27: once the socket of a connection has been closed, no step of the
\* connection pushes a message to m_qMessagesIn, puts a read in flight or adds
\* a write to those in flight, whichever handler runs.
C27_NothingAfterClose ==
    [][\A side \in Sides :
          (con[side].up /\ ~con[side].open) =>
              /\ con'[side].m_qMessagesIn = con[side].m_qMessagesIn
              /\ con'[side].read \in {con[side].read, "none"}
              /\ Len(con'[side].writes) <= Len(con[side].writes)]_vars

(***************************************************************************)
(* Handshake and payload                                                   *)
(***************************************************************************)
\* the stream client has handed no byte to the stream before the answer to the
\* challenge of the server
StreamAnswerFirst ==
    /\ con.client.answer = <<>> => con.client.put = <<>>
    /\ con.client.putAtAnswer = 0

\* the datagram client has given no message to async_send before the answer to
\* the challenge of the server
DatagramAnswerFirst ==
    \A i \in 1..Len(dgc.sends) :
        dgc.sends[i].kind = "message" =>
            \/ dgc.handshakeDone
            \/ \E j \in 1..(i - 1) : dgc.sends[j].kind = "answer"

\* C29: a client writes no message to the server before it has written its
\* answer to the handshake, in the stream session and by datagrams.
C29_HandshakeBeforePayload == StreamAnswerFirst /\ DatagramAnswerFirst

(***************************************************************************)
(* Validation before the inbound queue of a server                         *)
(***************************************************************************)
\* the remote ids of the tagged messages in the inbound queue q
RemoteIds(q) == {q[i].m_remote : i \in 1..Len(q)}

\* C30: a tagged message with remote id i is in the inbound queue of a server
\* only if OnClientValidate(i) has been called before: in the datagram server
\* for every user, in the stream server for the connection of the session.
C30_ValidatedBeforeInbound ==
    /\ \A i \in RemoteIds(udp.m_qMessagesIn) : i \in UdpIds /\ udp.nValidate[i] > 0
    /\ \A i \in RemoteIds(con.server.m_qMessagesIn) :
           i = con.server.m_id /\ con.server.nValidate > 0

\* the datagram server holds a message of a user it has validated
C30_Witness ==
    \E i \in RemoteIds(udp.m_qMessagesIn) : udp.nValidate[i] = 1

\* the stream server holds a message of the client it has validated
C30_WitnessStream ==
    /\ con.server.m_qMessagesIn # <<>>
    /\ con.server.nValidate = 1

(***************************************************************************)
(* ts_deque as a sequence                                                  *)
(***************************************************************************)
\* C23: used by one thread within the preconditions of its member functions,
\* ts_deque behaves as a sequence: push_back appends and push_front prepends the
\* argument, front and back return the first and the last element and leave the
\* deque as it is, pop_front and pop_back return and remove them, size returns
\* the length, empty returns whether the length is 0, clear leaves it empty.
C23_BehavesAsSequence ==
    LET q == sq.before
        n == Len(sq.before)
    IN ~sq.undefined =>
        CASE sq.call = "push_back" -> sq.m_deque = Append(q, sq.arg)
          [] sq.call = "push_front" -> sq.m_deque = <<sq.arg>> \o q
          [] sq.call = "front" -> sq.value = Head(q) /\ sq.m_deque = q
          [] sq.call = "back" -> sq.value = q[n] /\ sq.m_deque = q
          [] sq.call = "pop_front" -> sq.value = Head(q) /\ sq.m_deque = Tail(q)
          [] sq.call = "pop_back" ->
                 sq.value = q[n] /\ sq.m_deque = [i \in 1..(n - 1) |-> q[i]]
          [] sq.call = "size" -> sq.value = n /\ sq.m_deque = q
          [] sq.call = "empty" -> sq.flag = (n = 0) /\ sq.m_deque = q
          [] sq.call = "clear" -> sq.m_deque = <<>>
          [] OTHER -> sq.m_deque = <<>>

\* pop_back has returned the last of three elements that differ from end to end
C23_Witness ==
    /\ ~sq.undefined
    /\ sq.call = "pop_back"
    /\ sq.before = <<2, 2, 1>>
    /\ sq.value = 1
    /\ sq.m_deque = <<2, 2>>

(***************************************************************************)
(* Pushes and pops of a message                                            *)
(***************************************************************************)
RECURSIVE BytesOf(_)
\* the number of bytes of the objects of a stack of pushes
BytesOf(pushed) ==
    IF pushed = <<>> THEN 0 ELSE SizeOf[pushed[1].type] + BytesOf(Tail(pushed))

\* C24: after any pushes and pops that never pop more bytes than the body
\* holds, m_header.m_size is the length of the body, size() is the size of the
\* header plus the length of the body, the body holds the bytes of the objects
\* pushed and not popped, and a pop of the type pushed last returns the object
\* pushed last.
C24_PushPopStackOrder ==
    /\ mg.msg.m_header.m_size = U32(Len(mg.msg.m_body))
    /\ MsgSize(mg.msg) = 8 + Len(mg.msg.m_body)
    /\ Len(mg.msg.m_body) = mg.floor + BytesOf(mg.pushed)
    /\ \A i \in 1..Len(mg.pops) :
           mg.pops[i].pushed # NoValue => mg.pops[i].data = mg.pops[i].pushed

\* two objects of different types and of several bytes were pushed and popped in
\* reverse order, and the body is empty again
C24_Witness ==
    /\ mg.pops = <<[type |-> "uint32_t", data |-> <<1, 2, 3, 4>>, pushed |-> <<1, 2, 3, 4>>],
                   [type |-> "uint16_t", data |-> <<1, 2>>, pushed |-> <<1, 2>>]>>
    /\ mg.msg.m_body = <<>>
    /\ mg.nOps = 4

(***************************************************************************)
(* Threads, callbacks and the registry                                     *)
(***************************************************************************)
\* the threads that have called the function
CallersOf(callback) == {c[2] : c \in {x \in thr.callbacks : x[1] = callback}}

C22_WitnessDatagram ==
    /\ variant = "datagram-threads"
    /\ thr.callbacks = {<<"OnClientDisconnect", "worker">>, <<"OnClientValidate", "worker">>,
                        <<"OnMessage", "app">>}

\* C28: while the thread of the context runs, the thread of the application
\* neither reads nor writes the registry.
C28_RegistryOnExecutorOnly ==
    thr.running => thr.inside["app"] = "none"

\* both threads are inside the registry at once, and one of them writes it
RegistryRace ==
    /\ thr.inside["app"] # "none"
    /\ thr.inside["worker"] # "none"
    /\ "write" \in {thr.inside["app"], thr.inside["worker"]}

(***************************************************************************)
(* The handlers of the datagram server for a known peer                    *)
(***************************************************************************)
\* the datagrams the handler of the step has dispatched: <<endpoint, bytes>>
DispatchedInStep ==
    {<<udp'.trace[i][2], udp'.trace[i][3]>> :
        i \in {j \in 1..Len(udp'.trace) : udp'.trace[j][1] = "dispatch"}}

\* the users CleanupUsers has erased in the step
ErasedInStep ==
    {udp'.trace[i][2] : i \in {j \in 1..Len(udp'.trace) : udp'.trace[j][1] = "erase"}}

\* the endpoint is registered before the step and its user outlives the
\* CleanupUsers of the step
KnownInStep(e) ==
    /\ e \in DOMAIN udp.m_endpointToUserId
    /\ udp.m_endpointToUserId[e] \notin ErasedInStep

\* the step has sent nothing and has posted nothing
NothingSentInStep ==
    /\ udp'.challenge = udp.challenge
    /\ udp'.sent = udp.sent
    /\ udp'.m_qMessagesOut = udp.m_qMessagesOut
    /\ udp'.sending = udp.sending
    /\ udpPosted' = udpPosted

\* C34: a step that handles a datagram of a known peer that is not validated
\* either validates it (the datagram is the 8 bytes of the expected value, most
\* significant byte first): m_validated is set, m_lastMessageTime is the time of
\* the step, OnClientValidate(id) is called once; or erases it from both maps,
\* sends nothing, and calls neither OnClientValidate nor OnClientDisconnect.
C34_HandleValidation ==
    [][\A x \in DispatchedInStep :
          LET e == x[1]
              d == x[2]
              id == udp.m_endpointToUserId[e]
              user == udp.m_userIdToUser[id]
          IN (KnownInStep(e) /\ ~user.m_validated) =>
                IF d = user.m_handshakeCheck
                  THEN /\ id \in DOMAIN udp'.m_userIdToUser
                       /\ udp'.m_endpointToUserId[e] = id
                       /\ udp'.m_userIdToUser[id] =
                              [user EXCEPT !.m_validated = TRUE, !.m_lastMessageTime = udpNow]
                       /\ udp'.nValidate[id] = udp.nValidate[id] + 1
                       /\ udp'.nDisconnect[id] = udp.nDisconnect[id]
                  ELSE /\ id \notin DOMAIN udp'.m_userIdToUser
                       /\ e \notin DOMAIN udp'.m_endpointToUserId
                       /\ NothingSentInStep
                       /\ udp'.nValidate = udp.nValidate
                       /\ udp'.nDisconnect[id] = udp.nDisconnect[id]]_vars

\* the one peer the server ever registered has answered with other bytes and is
\* gone from both maps, without a call of OnClientValidate or OnClientDisconnect
C34_Witness ==
    /\ Len(udp.assigned) = 1
    /\ udp.m_userIdToUser = <<>> /\ udp.m_endpointToUserId = <<>>
    /\ \A id \in UdpIds : udp.nDisconnect[id] = 0 /\ udp.nValidate[id] = 0
    /\ \E i \in UdpDispatched :
         /\ udp.challenge[udp.trace[i][2]] # <<>>
         /\ ~IsConnectionRequest(udp.trace[i][3])


\* C35: a step that handles a datagram of a validated peer that is shorter than
\* a header, or whose length less 8 is not the size its header says, leaves the
\* peer in both maps with its m_validated and m_lastMessageTime as they were,
\* leaves m_qMessagesIn as it was, and takes from the maps nothing but the
\* users CleanupUsers has erased.
C35_MalformedMessageIgnored ==
    [][\A x \in DispatchedInStep :
          LET e == x[1]
              d == x[2]
              id == udp.m_endpointToUserId[e]
              user == udp.m_userIdToUser[id]
          IN (KnownInStep(e) /\ user.m_validated /\ ~IsWellFormedMessage(d)) =>
                /\ udp'.m_qMessagesIn = udp.m_qMessagesIn
                /\ udp'.m_userIdToUser =
                       [u \in DOMAIN udp.m_userIdToUser \ ErasedInStep |-> udp.m_userIdToUser[u]]
                /\ udp'.m_endpointToUserId =
                       [p \in {q \in DOMAIN udp.m_endpointToUserId :
                                  udp.m_endpointToUserId[q] \notin ErasedInStep}
                          |-> udp.m_endpointToUserId[p]]
                /\ udp'.m_userIdToUser[id] = user
                /\ udp'.nDisconnect[id] = udp.nDisconnect[id]]_vars

\* the server has handled a datagram that is no message, of a validated peer
\* whose last message is older than the step, and the peer is still registered
C35_Witness ==
    \E i \in UdpDispatched :
        LET e == udp.trace[i][2]
        IN /\ ~IsWellFormedMessage(udp.trace[i][3])
           /\ e \in DOMAIN udp.m_endpointToUserId
           /\ udp.m_userIdToUser[udp.m_endpointToUserId[e]].m_validated
           /\ udp.m_userIdToUser[udp.m_endpointToUserId[e]].m_lastMessageTime < udpNow
           /\ udp.nValidate[udp.m_endpointToUserId[e]] = 1


\* C38: m_endpointToUserId and m_userIdToUser are inverse to each other: an
\* endpoint maps to an id exactly when the user of that id exists and has that
\* endpoint; so no two endpoints share an id and every user has one endpoint.
C38_RegistryMapsInverse ==
    /\ \A e \in DOMAIN udp.m_endpointToUserId :
           /\ udp.m_endpointToUserId[e] \in DOMAIN udp.m_userIdToUser
           /\ udp.m_userIdToUser[udp.m_endpointToUserId[e]].m_endpoint = e
    /\ \A id \in DOMAIN udp.m_userIdToUser :
           /\ udp.m_userIdToUser[id].m_endpoint \in DOMAIN udp.m_endpointToUserId
           /\ udp.m_endpointToUserId[udp.m_userIdToUser[id].m_endpoint] = id

\* an endpoint whose first user has timed out is registered again under the
\* second id, and the maps hold that user alone
C38_Witness ==
    /\ Len(udp.assigned) = 2
    /\ udp.nDisconnect[udp.assigned[1]] = 1
    /\ DOMAIN udp.m_userIdToUser = {udp.assigned[2]}
    /\ \E e \in Endpoints :
         /\ DOMAIN udp.m_endpointToUserId = {e}
         /\ udp.m_endpointToUserId[e] = udp.assigned[2]


(***************************************************************************)
(* The send pipeline of the datagram server                                *)
(***************************************************************************)
\* C33: between two handlers, whenever m_qMessagesOut holds a message an
\* async_send_to is in flight.
C33_PipelineNeverStalls ==
    udp.m_qMessagesOut # <<>> => udp.sending

\* a send has completed with an error: the queue still holds its message, no
\* send is in flight, and no handler is left that would start one
PipelineStalled ==
    /\ udp.m_qMessagesOut # <<>>
    /\ ~udp.sending
    /\ udpPosted = <<>>
    /\ udp.m_qMessagesOut[1].m_remote \in DOMAIN udp.m_userIdToUser


\* the messages a step has handed to async_send_to
SentInStep == SubSeq(udp'.sent, Len(udp.sent) + 1, Len(udp'.sent))

\* what is left of the queue q when its first n entries are taken away
DropFront(q, n) == SubSeq(q, n + 1, Len(q))

\* C36: a step hands at most one message to async_send_to, and none while
\* another send is in flight; the message is the front of m_qMessagesOut, its
\* user is in the registry and the datagram goes to the endpoint of that user.
\* The queue changes at its ends only: a handler of Send appends, and from the
\* front go the message whose send has completed and messages of users that
\* are not in the registry, which are not sent.  While a send is in flight the
\* queue is not empty.
C36_SendOrder ==
    [][LET q == udp.m_qMessagesOut
           q2 == udp'.m_qMessagesOut
       IN /\ Len(udp'.sent) >= Len(udp.sent)
          /\ SubSeq(udp'.sent, 1, Len(udp.sent)) = udp.sent
          /\ Len(SentInStep) <= 1
          /\ udp'.sending => q2 # <<>>
          /\ \E n \in 0..Len(q) :
               /\ \/ q2 = DropFront(q, n)
                  \/ q2 # <<>> /\ SubSeq(q2, 1, Len(q2) - 1) = DropFront(q, n)
                  \/ n = Len(q) /\ q2 = <<>>
               /\ \A i \in 1..n :
                    \/ i = 1 /\ udp.sending /\ ~udp'.sending
                    \/ i = 1 /\ udp.sending /\ SentInStep # <<>>
                    \/ q[i].m_remote \notin DOMAIN udp'.m_userIdToUser
               /\ (udp.sending /\ SentInStep # <<>>) => n >= 1
          /\ SentInStep # <<>> =>
               LET x == SentInStep[1]
               IN /\ udp'.sending
                  /\ x.m_remote \in DOMAIN udp'.m_userIdToUser
                  /\ x.to = udp'.m_userIdToUser[x.m_remote].m_endpoint
                  /\ x.m_remote = q2[1].m_remote
                  /\ x.data = HeaderBytes(q2[1].m_msg.m_header, hostEndian)
                                  \o q2[1].m_msg.m_body]_vars

\* a handler has dropped the message of a user that had timed out and then sent
\* the next message of the queue, while a third message was sent before
C36_Witness ==
    /\ \E i, j \in 1..Len(udp.trace) :
         i < j /\ udp.trace[i][1] = "drop" /\ udp.trace[j][1] = "async_send_to"
    /\ Len(udp.sent) = 2
    /\ udp.sending


(***************************************************************************)
(* The registry and the accept loop of the stream server                   *)
(***************************************************************************)
\* C40: every connection in m_activeConnections has completed the handshake.
C40_RegistryHoldsValidatedOnly ==
    \A id \in DOMAIN tcp.m_activeConnections : tcp.m_activeConnections[id].validated

\* the registry holds a connection whose handshake has failed and whose socket
\* is closed
RegistryHoldsFailedHandshake ==
    \E id \in DOMAIN tcp.m_activeConnections :
        /\ ~tcp.m_activeConnections[id].validated
        /\ ~tcp.m_activeConnections[id].open


\* the steps of the accept handler that ran last, and the ids registered when it began
AcceptSteps == tcp.acceptSteps
AcceptStepAt(step) == {i \in 1..Len(AcceptSteps) : AcceptSteps[i] = step}
RegisteredBeforeAccept == AcceptSteps[1][3]
AcceptApproved == AcceptSteps # <<>> /\ AcceptStepAt(<<"OnClientConnect", TRUE>>) # {}
AcceptDenied == AcceptSteps # <<>> /\ AcceptStepAt(<<"OnClientConnect", FALSE>>) # {}
AcceptFailed == AcceptSteps # <<>> /\ AcceptSteps[1][2]

C37_WitnessDenied ==
    /\ AcceptDenied
    /\ RegisteredBeforeAccept # {}
    /\ tcp.accepting = 1


(***************************************************************************)
(* The sessions of the stream server on the executor                       *)
(***************************************************************************)
\* the connections whose handlers the executor has run in the step: handlers of
\* I/O operations and handlers that Send has posted
HandlersInStep ==
    {tcp'.trace[i][2] :
        i \in {j \in 1..Len(tcp'.trace) : tcp'.trace[j][1] \in {"handler", "SendPosted"}}}

\* C31: no handler of an I/O operation and no handler posted by Send runs on the
\* executor for a session that MessageClient or MessageAllClients has erased from
\* m_activeConnections, and so destroyed.
C31_NoHandlerAfterDestroy ==
    [][\A id \in HandlersInStep : id \in DOMAIN tcp.m_activeConnections]_vars

\* a handler that Send has posted is still to run for a connection that was erased
PostedForDestroyedSession ==
    \E i \in 1..Len(tcp.posted) :
        /\ tcp.posted[i] \notin DOMAIN tcp.m_activeConnections
        /\ tcp.nDisconnect[tcp.posted[i]] > 0

\* the handler of a cancelled operation is still to run for a connection that was
\* erased
CancelledForDestroyedSession ==
    \E id \in tcp.cancelled :
        /\ id \notin DOMAIN tcp.m_activeConnections
        /\ tcp.nDisconnect[id] > 0

(***************************************************************************)
(* Messages of a peer that was removed                                     *)
(***************************************************************************)
\* the users whose messages Update of the datagram server has given to OnMessage in
\* the step
UdpOnMessageInStep ==
    IF udp.m_qMessagesIn # <<>> /\ udp'.m_qMessagesIn = Tail(udp.m_qMessagesIn)
      THEN {Head(udp.m_qMessagesIn).m_remote}
    ELSE {}

\* the same for Update of the stream server
TcpOnMessageInStep ==
    {tcp'.trace[i][2] : i \in {j \in 1..Len(tcp'.trace) : tcp'.trace[j][1] = "OnMessage"}}

\* C32: in both servers, once OnClientDisconnect(i) has been called no later Update
\* gives a message of i to OnMessage, also not one that was in the inbound queue
\* when the peer was removed.
C32_NoMessageAfterDisconnect ==
    [][/\ \A i \in UdpOnMessageInStep : udp.nDisconnect[i] = 0
       /\ \A i \in TcpOnMessageInStep : tcp.nDisconnect[i] = 0]_vars

\* the inbound queue of the datagram server holds a message of a user whom
\* CleanupUsers has erased and for whom OnClientDisconnect has been called
DatagramMessageOfRemovedUser ==
    \E i \in RemoteIds(udp.m_qMessagesIn) :
        /\ udp.nDisconnect[i] > 0
        /\ udp.nValidate[i] > 0
        /\ i \notin DOMAIN udp.m_userIdToUser

\* the inbound queue of the stream server holds a message of a session that
\* MessageClient or MessageAllClients has erased
StreamMessageOfRemovedSession ==
    \E k \in 1..Len(tcp.m_qMessagesIn) :
        /\ tcp.nDisconnect[tcp.m_qMessagesIn[k]] > 0
        /\ tcp.m_qMessagesIn[k] \notin DOMAIN tcp.m_activeConnections


(***************************************************************************)
(* The two mutexes of ts_deque                                             *)
(***************************************************************************)
DqMutexes == {"m_mutexDeque", "m_mutexBlocking"}
DqOwner(m) == IF m = "m_mutexDeque" THEN m_mutexDeque ELSE m_mutexBlocking

\* the mutexes a thread owns, and the mutex it is about to acquire
DqHolds(t) == {m \in DqMutexes : DqOwner(m) = t}
DqWants(t) ==
    IF dqPc[t] \in {"lock", "check"} THEN {"m_mutexDeque"}
    ELSE IF dqPc[t] \in {"lockBlocking", "reacquire"} THEN {"m_mutexBlocking"}
    ELSE {}

\* the threads that own a mutex t is about to acquire
DqBlockedBy(t) == {DqOwner(m) : m \in DqWants(t)} \ {NoThread}

\* the threads t waits for, directly or through the threads in between
RECURSIVE DqWaitsFor(_, _)
DqWaitsFor(ts, n) ==
    IF n = 0 THEN ts
    ELSE DqWaitsFor(ts \cup UNION {DqBlockedBy(u) : u \in ts}, n - 1)

\* C39: whatever the threads call, no threads block on each other's mutexes for
\* ever: no thread waits, through the owners of the mutexes, for a mutex it owns
\* itself, and a thread that owns a mutex and waits for none can take its next step;
\* m_mutexDeque and m_mutexBlocking are never acquired in opposite orders, as a
\* thread that acquires m_mutexDeque owns no mutex.
C39_NoMutexDeadlock ==
    \A t \in DqThreads :
        /\ t \notin DqWaitsFor(DqBlockedBy(t), NumThreads)
        /\ (DqHolds(t) # {} /\ DqWants(t) = {}) =>
               ENABLED (DqNotify(t) \/ DqCvWait(t) \/ DqPop(t))
        /\ "m_mutexDeque" \in DqWants(t) => DqHolds(t) = {}
        /\ "m_mutexBlocking" \in DqWants(t) => "m_mutexBlocking" \notin DqHolds(t)

\* a pushing thread owns m_mutexDeque and is about to acquire m_mutexBlocking, which
\* a thread in wait() owns that found the deque empty; an earlier push has returned
C39_Witness ==
    \E a, b \in DqThreads :
        /\ m_mutexDeque = a /\ dqPc[a] = "lockBlocking" /\ dqOp[a] \in DqPushOps
        /\ m_mutexBlocking = b /\ dqPc[b] = "cvWait"
        /\ DqPushDone > 0

\* a thread is about to acquire m_mutexDeque for clear() while a pushing thread owns
\* it and is about to acquire m_mutexBlocking
C39_WitnessClear ==
    \E a, b \in DqThreads :
        /\ m_mutexDeque = a /\ dqPc[a] = "lockBlocking"
        /\ dqPc[b] = "lock" /\ dqOp[b] = "clear"

=============================================================================
